---- MODULE Spec2Model ----
(***************************************************************************)
(* Model of the incremental synchronisation engine of ios-to-android:      *)
(* scripts/sync_projects.py, seeded by scripts/convert_project.py and      *)
(* scripts/analyze_ios.py.                                                  *)
(*                                                                         *)
(* Text (file content, relative paths, package names) is a sequence of     *)
(* tokens; Python's `a in b` on strings is "a is a contiguous run of       *)
(* tokens of b".  Paths are tokenised so that every substring the code     *)
(* looks for starts and ends on a token boundary.  A dict is a function    *)
(* whose DOMAIN is the dict's key set; a directory tree is a function      *)
(* from the paths of the files that exist to their content.  None and the  *)
(* empty string are both the empty sequence where the code only tests      *)
(* truthiness.                                                             *)
(***************************************************************************)
EXTENDS Naturals, Sequences, FiniteSets, TLC

(* ------------------------------------------------------------------ *)
(* Bounds of the model                                                 *)
(* ------------------------------------------------------------------ *)
MaxRuns == 2
MaxSrcEdits == 2
MaxHandEdits == 1
MaxFaults == 1

(* ------------------------------------------------------------------ *)
(* Strings as token sequences                                          *)
(* ------------------------------------------------------------------ *)
None == << >>

\* Python: a in b
Contains(b, a) ==
  \E i \in 0..(Len(b) - Len(a)) : SubSeq(b, i + 1, i + Len(a)) = a

\* Python: s.endswith(a)
EndsWith(s, a) ==
  /\ Len(a) <= Len(s)
  /\ SubSeq(s, Len(s) - Len(a) + 1, Len(s)) = a

\* str.lower() of one token
LowerTok(t) ==
  CASE t = "Model" -> "model"
    [] t = "Test" -> "test"
    [] t = "Profile" -> "profile"
    [] t = "Archive" -> "archive"
    [] t = "ViewModel" -> "viewmodel"
    [] t = "VM" -> "vm"
    [] t = "Service" -> "service"
    [] t = "API" -> "api"
    [] t = "Network" -> "network"
    [] t = "Extension" -> "extension"
    [] t = "Util" -> "util"
    [] t = "Helper" -> "helper"
    [] t = "Struct" -> "struct"
    [] t = "User" -> "user"
    [] t = "Codable" -> "codable"
    [] t = "Bool" -> "bool"
    [] t = "Boolean" -> "boolean"
    [] t = "Pods" -> "pods"
    [] t = "Lib" -> "lib"
    [] t = "My" -> "my"
    [] OTHER -> t

\* Python: s.lower()
Lower(s) == [i \in DOMAIN s |-> LowerTok(s[i])]

\* Python: s.replace(old, new) for a one-token old
ReplaceTok(s, old, new) == [i \in DOMAIN s |-> IF s[i] = old THEN new ELSE s[i]]

\* index of the last "/" of a path, 0 when there is none
LastSlash(p) ==
  IF \E i \in DOMAIN p : p[i] = "/"
  THEN CHOOSE i \in DOMAIN p : p[i] = "/" /\ \A j \in DOMAIN p : p[j] = "/" => j <= i
  ELSE 0

\* Path(p).parent as text (p.rsplit('/', 1)[0])
ParentOf(p) == SubSeq(p, 1, LastSlash(p) - 1)

\* Path(p).name
NameOf(p) == SubSeq(p, LastSlash(p) + 1, Len(p))

IsSuffixTok(t) == t \in {".swift", ".kt"}

\* Path(p).stem: the last component without its final suffix
Stem(p) ==
  LET n == NameOf(p)
  IN IF Len(n) > 1 /\ IsSuffixTok(n[Len(n)]) THEN SubSeq(n, 1, Len(n) - 1) ELSE n

\* re.sub of a literal token pattern, every non-overlapping match, left to right
RECURSIVE ReplaceAll(_, _, _)
ReplaceAll(s, pat, rep) ==
  IF Len(s) < Len(pat) THEN s
  ELSE IF SubSeq(s, 1, Len(pat)) = pat
       THEN rep \o ReplaceAll(SubSeq(s, Len(pat) + 1, Len(s)), pat, rep)
       ELSE <<Head(s)>> \o ReplaceAll(Tail(s), pat, rep)

\* tokens that are not \w+ words
NonWord == {"->", "??", "?:", ":", "(", ")", "{", "}", "\\(", "${", "[", "]", "/", "."}

IsWord(t) == t \notin NonWord

\* re.sub(r'-> (\w+)', r': \1', s)
RECURSIVE ReplaceArrow(_)
ReplaceArrow(s) ==
  IF Len(s) < 2 THEN s
  ELSE IF s[1] = "->" /\ IsWord(s[2])
       THEN <<":", s[2]>> \o ReplaceArrow(SubSeq(s, 3, Len(s)))
       ELSE <<Head(s)>> \o ReplaceArrow(Tail(s))

\* index of the first ")" of s at or after position i, 0 when there is none
FirstClose(s, i) ==
  IF \E k \in i..Len(s) : s[k] = ")"
  THEN CHOOSE k \in i..Len(s) : s[k] = ")" /\ \A j \in i..Len(s) : s[j] = ")" => k <= j
  ELSE 0

\* re.sub(r'\\\(([^)]+)\)', r'${\1}', s)
RECURSIVE ReplaceInterp(_)
ReplaceInterp(s) ==
  IF Len(s) < 3 THEN s
  ELSE IF s[1] = "\\(" /\ FirstClose(s, 2) > 2
       THEN LET k == FirstClose(s, 2)
            IN <<"${">> \o SubSeq(s, 2, k - 1) \o <<"}">>
                 \o ReplaceInterp(SubSeq(s, k + 1, Len(s)))
       ELSE <<Head(s)>> \o ReplaceInterp(Tail(s))

\* apply an ordered list of literal rules, each to the result of the previous one
RECURSIVE ApplyRules(_, _)
ApplyRules(s, rules) ==
  IF rules = << >> THEN s
  ELSE ApplyRules(ReplaceAll(s, rules[1][1], rules[1][2]), Tail(rules))

(* ------------------------------------------------------------------ *)
(* The universe of files                                               *)
(* ------------------------------------------------------------------ *)
\* relative paths of Swift files that may exist under the iOS root
PModel == <<"Model", "s", "/", "Profile", ".swift">>
PArchive == <<"Archive", "/", "Model", "s", "/", "Profile", ".swift">>
PTest == <<"Profile", "Test", "s", ".swift">>

SourcePaths == {PModel, PArchive, PTest}

\* a file the two classifiers place differently, and a file of a vendored library
PUser == <<"User", ".swift">>
PPods == <<"Pods", "/", "Lib", ".swift">>

WidePaths == {PUser, PPods}

\* a file under MyPods/, a directory whose name ends with an excluded name
PMyPods == <<"My", "Pods", "/", "Lib", ".swift">>

SuffixPaths == {PUser, PMyPods}

AllPaths == SourcePaths \cup WidePaths \cup SuffixPaths

\* Swift texts a source file may hold; SwiftV1 and SwiftV3 differ (Bool, and the
\* Darwin type Boolean) and are rewritten to the same Kotlin
SwiftV1 == <<"let", "ok", ":", "Bool">>
SwiftV2 == <<"let", "ok", ":", "Bool", "??", "nil">>
SwiftV3 == <<"let", "ok", ":", "Boolean">>

SwiftTexts == {SwiftV1, SwiftV2, SwiftV3}

\* class UserStruct: Codable
SwiftV4 == <<"class", "User", "Struct", ":", "Codable">>

WideTexts == {SwiftV1, SwiftV4}

\* texts with property-wrapper annotations: @Published alone, and @State ahead of
\* @Published
SwiftV5 == <<"@Published", "var", "ok", ":", "Bool">>
SwiftV6 == <<"@State", "var", "on", ":", "Bool", "@Published", "var", "ok", ":", "Bool">>

MarkerTexts == {SwiftV1, SwiftV5, SwiftV6}

AllTexts == SwiftTexts \cup WideTexts \cup MarkerTexts

\* --package of the initial conversion, kept in the sync state as packageName
PackageName == <<"com", ".", "app">>

\* absolute path of the iOS root, as str(Path) gives it (no trailing slash)
IosRoot == <<"/", "work", "/", "ios">>

(* ------------------------------------------------------------------ *)
(* Checksum store                                                       *)
(* ------------------------------------------------------------------ *)
\* hashlib.md5(bytes).hexdigest(): never empty, distinct for distinct content
Md5(content) == <<"md5">> \o content

\* get_file_checksum(ios_path / p) on the tree `files`
get_file_checksum(files, p) ==
  IF p \notin DOMAIN files THEN None ELSE Md5(files[p])

(* ------------------------------------------------------------------ *)
(* Classifier of the sync engine                                       *)
(* ------------------------------------------------------------------ *)
\* a variant that looks at the content before it looks at the name
classify_file_ContentFirst(filepath, content) ==
  LET path_lower == Lower(filepath)
      name == Lower(Stem(filepath))
  IN IF Contains(content, <<"View">>) /\ Contains(content, <<"body:">>)
     THEN "view"
     ELSE IF Contains(content, <<"UIViewController">>)
     THEN "view"
     ELSE IF \/ Contains(path_lower, <<"test">>)
             \/ EndsWith(name, <<"test", "s">>)
             \/ EndsWith(name, <<"test">>)
     THEN "test"
     ELSE IF Contains(name, <<"viewmodel">>) \/ Contains(name, <<"vm">>)
     THEN "viewmodel"
     ELSE IF \/ Contains(path_lower, <<"model">>)
             \/ (Contains(content, <<"struct">>) /\ Contains(content, <<"Codable">>))
     THEN "model"
     ELSE IF \/ Contains(path_lower, <<"service">>)
             \/ Contains(path_lower, <<"api">>)
             \/ Contains(path_lower, <<"network">>)
     THEN "service"
     ELSE IF Contains(path_lower, <<"extension">>)
     THEN "extension"
     ELSE IF Contains(path_lower, <<"util">>) \/ Contains(path_lower, <<"helper">>)
     THEN "utility"
     ELSE "other"

\* classify_file, lines 167-188
classify_file(filepath, content) ==
  LET path_lower == Lower(filepath)
      name == Lower(Stem(filepath))
  IN IF \/ Contains(path_lower, <<"test">>)
        \/ EndsWith(name, <<"test", "s">>)
        \/ EndsWith(name, <<"test">>)
     THEN "test"
     ELSE IF Contains(name, <<"viewmodel">>) \/ Contains(name, <<"vm">>)
     THEN "viewmodel"
     ELSE IF Contains(content, <<"View">>) /\ Contains(content, <<"body:">>)
     THEN "view"
     ELSE IF Contains(content, <<"UIViewController">>)
     THEN "view"
     ELSE IF \/ Contains(path_lower, <<"model">>)
             \/ (Contains(content, <<"struct">>) /\ Contains(content, <<"Codable">>))
     THEN "model"
     ELSE IF \/ Contains(path_lower, <<"service">>)
             \/ Contains(path_lower, <<"api">>)
             \/ Contains(path_lower, <<"network">>)
     THEN "service"
     ELSE IF Contains(path_lower, <<"extension">>)
     THEN "extension"
     ELSE IF Contains(path_lower, <<"util">>) \/ Contains(path_lower, <<"helper">>)
     THEN "utility"
     ELSE "other"

\* classify_file on the files of the universe, computed once
SyncRole == [p \in AllPaths |-> [t \in AllTexts |-> classify_file(p, t)]]

(* ------------------------------------------------------------------ *)
(* Classifier of the structural analyzer (seeds the initial mapping)   *)
(* ------------------------------------------------------------------ *)
\* re.findall(r'^import\s+(\w+)', content, re.MULTILINE)
Imports(content) ==
  {content[i + 1] : i \in {j \in 1..(Len(content) - 1) :
                             content[j] = "import" /\ IsWord(content[j + 1])}}

analyze_swift_file(relative_path, content) ==
  LET path_lower == Lower(relative_path)
      name_lower == Lower(Stem(relative_path))
      uses_swiftui == \/ "SwiftUI" \in Imports(content)
                      \/ (Contains(content, <<"View">>) /\ Contains(content, <<"body:">>))
      uses_uikit == \/ "UIKit" \in Imports(content)
                    \/ Contains(content, <<"UIViewController">>)
  IN IF \/ Contains(path_lower, <<"test">>)
        \/ EndsWith(name_lower, <<"test", "s">>)
        \/ EndsWith(name_lower, <<"test">>)
     THEN "test"
     ELSE IF Contains(name_lower, <<"viewmodel">>) \/ Contains(name_lower, <<"vm">>)
     THEN "viewmodel"
     ELSE IF uses_swiftui /\ (Contains(content, <<"View">>) \/ Contains(content, <<"body:">>))
     THEN "view"
     ELSE IF uses_uikit /\ Contains(content, <<"UIViewController">>)
     THEN "view"
     ELSE IF \/ Contains(path_lower, <<"model">>)
             \/ (Contains(Lower(content), <<"struct">>) /\ Contains(content, <<"Codable">>))
     THEN "model"
     ELSE IF \/ Contains(path_lower, <<"service">>)
             \/ Contains(path_lower, <<"api">>)
             \/ Contains(path_lower, <<"network">>)
     THEN "service"
     ELSE IF Contains(path_lower, <<"extension">>) \/ EndsWith(name_lower, <<"+">>)
     THEN "extension"
     ELSE IF Contains(path_lower, <<"util">>) \/ Contains(path_lower, <<"helper">>)
     THEN "utility"
     ELSE "other"

(* ------------------------------------------------------------------ *)
(* Rewrite pipeline                                                     *)
(* ------------------------------------------------------------------ *)
\* the literal rules of sync_projects.convert_swift_to_kotlin before '-> (\w+)'
SyncRulesHead ==
  << <<(<<"let">>), (<<"val">>)>>,
     <<(<<"var">>), (<<"var">>)>>,
     <<(<<"func">>), (<<"fun">>)>>,
     <<(<<"nil">>), (<<"null">>)>>,
     <<(<<"self">>), (<<"this">>)>>,
     <<(<<"struct">>), (<<"data", "class">>)>>,
     <<(<<"enum">>), (<<"enum", "class">>)>>,
     <<(<<"protocol">>), (<<"interface">>)>>,
     <<(<<"Bool">>), (<<"Boolean">>)>>,
     <<(<<"??">>), (<<"?:">>)>>,
     <<(<<"->", "Void">>), (<<":", "Unit">>)>> >>

\* the literal rules after the string-interpolation rule
SyncRulesTail ==
  << <<(<<".count">>), (<<".size">>)>>,
     <<(<<".isEmpty">>), (<<".isEmpty()">>)>>,
     <<(<<".append(">>), (<<".add(">>)>>,
     <<(<<"print(">>), (<<"println(">>)>> >>

\* sync_projects.convert_swift_to_kotlin
convert_swift_to_kotlin(swift_content) ==
  ApplyRules(ReplaceInterp(ReplaceArrow(ApplyRules(swift_content, SyncRulesHead))),
             SyncRulesTail)

\* convert_swift_to_kotlin on the texts of the universe, computed once
SyncKotlin == [t \in AllTexts |-> convert_swift_to_kotlin(t)]

\* re.sub(r'\[(\w+)\]', r'List<\1>', s)
RECURSIVE ReplaceList(_)
ReplaceList(s) ==
  IF Len(s) < 3 THEN s
  ELSE IF s[1] = "[" /\ IsWord(s[2]) /\ s[3] = "]"
       THEN <<"List<", s[2], ">">> \o ReplaceList(SubSeq(s, 4, Len(s)))
       ELSE <<Head(s)>> \o ReplaceList(Tail(s))

ConvRulesHead == SubSeq(SyncRulesHead, 1, 9)

ConvRulesMid == SubSeq(SyncRulesHead, 10, 11)

ConvRulesTail ==
  << <<(<<".count">>), (<<".size">>)>>,
     <<(<<".isEmpty">>), (<<".isEmpty()">>)>>,
     <<(<<".append(">>), (<<".add(">>)>>,
     <<(<<".first">>), (<<".firstOrNull()">>)>>,
     <<(<<"print(">>), (<<"println(">>)>>,
     <<(<<"import", "Foundation">>), (<<"//", "import", "Foundation">>)>>,
     <<(<<"import", "UIKit">>), (<<"//", "import", "UIKit">>)>>,
     <<(<<"import", "SwiftUI">>), (<<"//", "import", "SwiftUI", "- use Compose">>)>>,
     <<(<<"import", "Combine">>), (<<"//", "import", "Combine", "- use Flow">>)>> >>

\* the advisory markers, in the order the code tries them
Markers ==
  << <<"@Published", "// TODO: VERIFY - Convert to MutableStateFlow">>,
     <<"@State", "// TODO: VERIFY - Convert to remember { mutableStateOf() }">>,
     <<"@ObservedObject", "// TODO: VERIFY - Convert to viewModel()">> >>

\* the first marker whose annotation occurs in the text is prepended
AddMarker(kotlin) ==
  IF \E i \in DOMAIN Markers : Contains(kotlin, <<Markers[i][1]>>)
  THEN LET i == CHOOSE k \in DOMAIN Markers :
                  /\ Contains(kotlin, <<Markers[k][1]>>)
                  /\ \A j \in DOMAIN Markers : Contains(kotlin, <<Markers[j][1]>>) => k <= j
       IN <<Markers[i][2]>> \o kotlin
  ELSE kotlin

\* convert_project.convert_swift_to_kotlin
convert_swift_to_kotlin_initial(swift_content) ==
  AddMarker(
    ApplyRules(
      ReplaceInterp(ReplaceArrow(
        ApplyRules(ReplaceList(ApplyRules(swift_content, ConvRulesHead)), ConvRulesMid))),
      ConvRulesTail))

(* ------------------------------------------------------------------ *)
(* Path resolver                                                        *)
(* ------------------------------------------------------------------ *)
JavaRoot == <<"app", "/", "src", "/", "main", "/", "java", "/">>

\* a variant that gives test files a directory of their own
RoleDir_TestDir(file_type) ==
  CASE file_type = "model" -> <<"/", "model">>
    [] file_type = "viewmodel" -> <<"/", "viewmodel">>
    [] file_type = "view" -> <<"/", "ui", "/", "screens">>
    [] file_type = "service" -> <<"/", "data", "/", "repository">>
    [] file_type = "extension" -> <<"/", "util">>
    [] file_type = "utility" -> <<"/", "util">>
    [] file_type = "test" -> <<"/", "test">>
    [] OTHER -> << >>

\* type_to_dir without the common prefix app/src/main/java/{pkg_path}
RoleDir(file_type) ==
  CASE file_type = "model" -> <<"/", "model">>
    [] file_type = "viewmodel" -> <<"/", "viewmodel">>
    [] file_type = "view" -> <<"/", "ui", "/", "screens">>
    [] file_type = "service" -> <<"/", "data", "/", "repository">>
    [] file_type = "extension" -> <<"/", "util">>
    [] file_type = "utility" -> <<"/", "util">>
    [] OTHER -> << >>

determine_android_path(ios_path, file_type, package_name) ==
  LET pkg_path == ReplaceTok(package_name, ".", "/")
      filename == Stem(ios_path) \o <<".kt">>
  IN JavaRoot \o pkg_path \o RoleDir(file_type) \o <<"/">> \o filename

(* ------------------------------------------------------------------ *)
(* Dicts and trees                                                      *)
(* ------------------------------------------------------------------ *)
EmptyDict == [k \in {} |-> None]

\* d[k] = v
Put(d, k, v) == [x \in DOMAIN d \cup {k} |-> IF x = k THEN v ELSE d[x]]

\* del d[k]
Del(d, k) == [x \in DOMAIN d \ {k} |-> d[x]]

\* d.get(k), None when k is no key
Get(d, k) == IF k \in DOMAIN d THEN d[k] ELSE None

\* the directories mkdir(parents=True) makes sure exist for directory d
WithParents(d) ==
  {d} \cup {SubSeq(d, 1, i - 1) : i \in {j \in 2..Len(d) : d[j] = "/"}}

(* ------------------------------------------------------------------ *)
(* State                                                               *)
(* ------------------------------------------------------------------ *)
VARIABLES
  src,            \* the iOS tree: relative path -> Swift text, for the files that exist
  tgt,            \* the Android tree: relative path -> text, for the files that exist
  tgtDirs,        \* the directories of the Android tree
  stateFile,      \* .ios-android-sync.json: << >> when missing, else <<SyncState>>
  pc,             \* "idle", or "loop" inside sync_projects' for loop
  dry_run, interactive, files,     \* the arguments of the running sync
  todo,           \* the changes of the list not yet reached by the loop
  new_mapping, new_checksums,      \* the locals of sync_projects
  clock,          \* datetime.now(), as a counter
  runs, srcEdits, handEdits,       \* how often the bounded actions were taken
  log,            \* history: ios_path -> record, for the changes the loop has handled
  pre,            \* history: the Android tree and state file when the run started
  detected,       \* history: what detect_changes returned in this run, unfiltered
  lastEnd,        \* history: how the last command ended
  clean,          \* history: a full run completed and the source is unchanged since
  wasClean,       \* history: clean, when the current or last run started
  ios_exists, android_exists,      \* whether the two root directories exist
  unreadable,     \* the source files whose content cannot be read
  unwritable,     \* the target files that can be neither written nor unlinked
  faults          \* how often something outside the tool went wrong

treeVars == <<tgt, tgtDirs>>
runVars == <<dry_run, interactive, files, todo, new_mapping, new_checksums>>
countVars == <<runs, srcEdits, handEdits>>
histVars == <<log, pre, detected, lastEnd, clean, wasClean>>
envVars == <<ios_exists, android_exists, unreadable, unwritable, faults>>
vars == <<src, tgt, tgtDirs, stateFile, pc, dry_run, interactive, files, todo,
          new_mapping, new_checksums, clock, runs, srcEdits, handEdits, log, pre,
          detected, lastEnd, clean, wasClean, ios_exists, android_exists, unreadable,
          unwritable, faults>>

(* ------------------------------------------------------------------ *)
(* Sync state file                                                     *)
(* ------------------------------------------------------------------ *)
\* the file json.dumps(data) leaves: a document that parses to an object
JsonObject(data) == [json |-> "object", data |-> data]

\* how load_sync_state ends on the file: "absent" and "invalid" (not parseable)
\* return None, "raises" is a parsed value without .get, "loaded" an object
LoadOutcome(file) ==
  IF file = << >> THEN "absent"
  ELSE IF file[1].json = "invalid" THEN "invalid"
  ELSE IF file[1].json # "object" THEN "raises"
  ELSE "loaded"

\* data.get(k, v)
Default(data, k, v) == IF k \in DOMAIN data THEN data[k] ELSE v

\* load_sync_state on a file that parses to an object
load_sync_state(file) ==
  LET data == file[1].data
  IN [lastSyncDate |-> Default(data, "lastSyncDate", 0),
      iosCommit |-> Default(data, "iosCommit", None),
      packageName |-> Default(data, "packageName", None),
      fileMapping |-> Default(data, "fileMapping", EmptyDict),
      checksums |-> Default(data, "checksums", EmptyDict)]

\* the loaded SyncState
State == load_sync_state(stateFile)

\* a variant that only looks for the Android root
RootsMissing_TargetOnly(ios, android) == ~android

\* main, lines 409-415: one of the two roots does not exist
RootsMissing(ios, android) == ~ios \/ ~android

(* ------------------------------------------------------------------ *)
(* Change detector                                                     *)
(* ------------------------------------------------------------------ *)
ExcludedDirs == {"Pods", "Carthage", "build", ".build", "DerivedData"}

\* a variant that leaves no file out
IsExcluded_Nothing(rel_path) == FALSE

\* any(x in str(f) for x in ['Pods/', ...]) on the absolute path of the file
IsExcluded(rel_path) ==
  \E x \in ExcludedDirs : Contains(IosRoot \o <<"/">> \o rel_path, <<x, "/">>)

\* the same test for a project that lives at another place
IsExcludedAt(root, rel_path) ==
  \E x \in ExcludedDirs : Contains(root \o <<"/">> \o rel_path, <<x, "/">>)

\* the paths of the universe that the enumeration leaves out, computed once
ExcludedPaths == {p \in AllPaths : IsExcluded(p)}

\* the enumerated files on which get_file_checksum's read_bytes raises
Unhashable(source, no_read) == (DOMAIN source \ ExcludedPaths) \cap no_read

\* current_files: relative path -> checksum of every enumerated file
CurrentFiles(source) ==
  [p \in DOMAIN source \ ExcludedPaths |-> get_file_checksum(source, p)]

FileChange(ios_path, android_path, change_type, old_checksum, new_checksum) ==
  [ios_path |-> ios_path, android_path |-> android_path, change_type |-> change_type,
   old_checksum |-> old_checksum, new_checksum |-> new_checksum]

\* a variant without the second loop, the one over state.checksums
detect_changes_NoDeleted(source, st) ==
  LET current_files == CurrentFiles(source)
  IN {FileChange(p, None, "added", None, current_files[p]) :
        p \in {q \in DOMAIN current_files : q \notin DOMAIN st.checksums}}
     \cup
     {FileChange(p, Get(st.fileMapping, p), "modified", st.checksums[p], current_files[p]) :
        p \in {q \in DOMAIN current_files :
                 q \in DOMAIN st.checksums /\ st.checksums[q] # current_files[q]}}

\* the changes of detect_changes, as a set; the list holds the added and modified
\* ones (in directory order) before the deleted ones (in dict order)
detect_changes(source, st) ==
  LET current_files == CurrentFiles(source)
  IN {FileChange(p, None, "added", None, current_files[p]) :
        p \in {q \in DOMAIN current_files : q \notin DOMAIN st.checksums}}
     \cup
     {FileChange(p, Get(st.fileMapping, p), "modified", st.checksums[p], current_files[p]) :
        p \in {q \in DOMAIN current_files :
                 q \in DOMAIN st.checksums /\ st.checksums[q] # current_files[q]}}
     \cup
     {FileChange(p, Get(st.fileMapping, p), "deleted", st.checksums[p], None) :
        p \in {q \in DOMAIN st.checksums : q \notin DOMAIN current_files}}

\* a variant that ignores --files
FilterChanges_All(changes, fs) == changes

\* changes = [c for c in changes if any(f in c.ios_path for f in files)]
FilterChanges(changes, fs) ==
  IF fs = None THEN changes
  ELSE {c \in changes : \E i \in DOMAIN fs : Contains(c.ios_path, fs[i])}

\* get_changed_files_git: `git diff --name-only <since> HEAD -- *.swift` lists
\* nothing for HEAD itself and fails, giving [], for a value that names no revision
get_changed_files_git(since_commit) == {}

\* a variant that keeps, when --since is given, the changes git lists since then
ChangesOfRun_SinceGit(source, st, since, fs) ==
  IF since = None THEN FilterChanges(detect_changes(source, st), fs)
  ELSE {c \in FilterChanges(detect_changes(source, st), fs) :
          c.ios_path \in get_changed_files_git(since)}

\* lines 326-330: the list the loop is given; the parameter since is not read
ChangesOfRun(source, st, since, fs) == FilterChanges(detect_changes(source, st), fs)

\* the changes the for loop may reach next: list order is added/modified, then deleted
NextChanges(remaining) ==
  IF \E c \in remaining : c.change_type # "deleted"
  THEN {c \in remaining : c.change_type # "deleted"}
  ELSE remaining

(* ------------------------------------------------------------------ *)
(* Merge/apply engine                                                   *)
(* ------------------------------------------------------------------ *)
\* s.rsplit('/', 1)[0]
RSplitHead(s) == IF LastSlash(s) = 0 THEN s ELSE SubSeq(s, 1, LastSlash(s) - 1)

\* pkg: target_rel.replace('app/src/main/java/', '').rsplit('/', 1)[0].replace('/', '.')
PackageOf(target_rel) ==
  ReplaceTok(RSplitHead(ReplaceAll(target_rel, JavaRoot, << >>)), "/", ".")

\* a variant that resolves every unmapped file to the top-level directory
TargetRel_TopLevel(change, file_type, package_name) ==
  IF change.android_path # None
  THEN change.android_path
  ELSE determine_android_path(change.ios_path, "other", package_name)

\* the target path of an added or modified change
TargetRel(change, file_type, package_name) ==
  IF change.android_path # None
  THEN change.android_path
  ELSE determine_android_path(change.ios_path, file_type, package_name)

\* kotlin_content: package declaration, provenance comment, converted text
GeneratedContent(ios_path, target_rel, swift_content) ==
  <<"package">> \o PackageOf(target_rel)
    \o <<"// TODO: VERIFY - Synced from">> \o ios_path
    \o SyncKotlin[swift_content]

ConflictOpen == "// <<<<<<< ANDROID (local)"
ConflictClose == "// >>>>>>> iOS (incoming)"

\* a variant that puts the incoming content before the existing one
ConflictWrap_IncomingFirst(old_content, kotlin_content) ==
  <<ConflictOpen, "// The following is the existing Android code.",
    "// Review and merge with the iOS changes below.", "// =======">>
    \o kotlin_content
    \o <<ConflictClose, "// The following is the converted iOS code.", "// =======">>
    \o old_content

\* the conflict-delimited text holding the existing and the incoming content
ConflictWrap(old_content, kotlin_content) ==
  <<ConflictOpen, "// The following is the existing Android code.",
    "// Review and merge with the iOS changes below.", "// =======">>
    \o old_content
    \o <<ConflictClose, "// The following is the converted iOS code.", "// =======">>
    \o kotlin_content

\* whether the existing target is compared with the generated content
ComparesExisting(change, target_exists) ==
  change.change_type = "modified" /\ target_exists

\* a variant that writes the generated text over whatever is there
ContentToWrite_Overwrite(change, tree, target_rel, kotlin_content) == kotlin_content

\* the text target.write_text is given
ContentToWrite(change, tree, target_rel, kotlin_content) ==
  IF ComparesExisting(change, target_rel \in DOMAIN tree)
  THEN IF tree[target_rel] # kotlin_content
       THEN ConflictWrap(tree[target_rel], kotlin_content)
       ELSE kotlin_content
  ELSE kotlin_content

\* a variant that never unlinks
Unlinks_Never(change, tree, dry) == FALSE

\* a variant that unlinks in a dry run too
Unlinks_InDryRun(change, tree, dry) ==
  /\ change.android_path # None
  /\ change.android_path \in DOMAIN tree

\* whether a deleted change unlinks its target
Unlinks(change, tree, dry) ==
  /\ change.android_path # None
  /\ change.android_path \in DOMAIN tree
  /\ ~dry

\* a variant that translates test files like any other file
SkipsChange_OnlyMissing(change, source) == change.ios_path \notin DOMAIN source

\* whether an added or modified change is given up before anything is generated
SkipsChange(change, source) ==
  \/ change.ios_path \notin DOMAIN source
  \/ SyncRole[change.ios_path][source[change.ios_path]] = "test"

\* whether apply_change ends in an exception: the read of line 252, the unlink of
\* line 243 or the write of line 299 fails
ApplyRaises(change, source, tree, package_name, dry, no_read, no_write) ==
  IF change.change_type = "deleted"
  THEN Unlinks(change, tree, dry) /\ change.android_path \in no_write
  ELSE /\ change.ios_path \in DOMAIN source
       /\ \/ change.ios_path \in no_read
          \/ /\ ~SkipsChange(change, source)
             /\ ~dry
             /\ TargetRel(change, SyncRole[change.ios_path][source[change.ios_path]],
                          package_name) \in no_write

\* apply_change when nothing raises: its return value and the Android tree it leaves
apply_change(change, source, tree, dirs, package_name, dry) ==
  IF change.change_type = "deleted"
  THEN [result |-> None,
        tgt |-> IF Unlinks(change, tree, dry) THEN Del(tree, change.android_path) ELSE tree,
        dirs |-> dirs]
  ELSE IF SkipsChange(change, source)
  THEN [result |-> None, tgt |-> tree, dirs |-> dirs]
  ELSE LET swift_content == source[change.ios_path]
           file_type == SyncRole[change.ios_path][swift_content]
           target_rel == TargetRel(change, file_type, package_name)
           kotlin_content == GeneratedContent(change.ios_path, target_rel, swift_content)
       IN IF dry
          THEN [result |-> target_rel, tgt |-> tree, dirs |-> dirs]
          ELSE [result |-> target_rel,
                tgt |-> Put(tree, target_rel,
                            ContentToWrite(change, tree, target_rel, kotlin_content)),
                dirs |-> dirs \cup WithParents(ParentOf(target_rel))]

(* ------------------------------------------------------------------ *)
(* Initial conversion (convert_project.py)                             *)
(* ------------------------------------------------------------------ *)
\* the directories create_directory_structure makes under the package directory
PackageDirs ==
  {<<"/", "model">>, <<"/", "ui", "/", "theme">>, <<"/", "ui", "/", "screens">>,
   <<"/", "ui", "/", "components">>, <<"/", "viewmodel">>,
   <<"/", "data", "/", "repository">>, <<"/", "data", "/", "remote">>,
   <<"/", "data", "/", "local">>, <<"/", "di">>, <<"/", "util">>}

create_directory_structure(package_name) ==
  UNION {WithParents(JavaRoot \o ReplaceTok(package_name, ".", "/") \o d) : d \in PackageDirs}

\* the files convert_source_files converts: the analyzer's model_files, viewmodel_files
SeededFiles(source) ==
  {p \in DOMAIN source :
     ~IsExcluded(p) /\ analyze_swift_file(p, source[p]) \in {"model", "viewmodel"}}

\* kotlin_path relative to the Android root
InitialTarget(p, source, package_name) ==
  JavaRoot \o ReplaceTok(package_name, ".", "/")
    \o <<"/", analyze_swift_file(p, source[p]), "/">> \o Stem(p) \o <<".kt">>

\* the text convert_source_files writes for source file p
InitialContent(p, source, package_name) ==
  <<"package">> \o package_name \o <<".", analyze_swift_file(p, source[p])>>
    \o convert_swift_to_kotlin_initial(source[p])

\* create_sync_state
create_sync_state(file_mapping, package_name, now) ==
  [lastSyncDate |-> now, iosCommit |-> None, packageName |-> package_name,
   fileMapping |-> file_mapping, checksums |-> EmptyDict]

(* ------------------------------------------------------------------ *)
(* Inputs                                                              *)
(* ------------------------------------------------------------------ *)
\* values of --files after split(','): None, or a list of substrings
FileFilters == {None, << <<"Archive">> >>}

\* what get_git_commit returns: HEAD of the repository the iOS tree lives in
GitHead == <<"abc123">>

\* values of --since: absent, a commit, a date
Sinces == {None, GitHead, <<"2024-01-01">>}

\* the line a person appends to a generated file
HandEditLine == "// edited by hand"

(* ------------------------------------------------------------------ *)
(* Init                                                                *)
(* ------------------------------------------------------------------ *)
NoRun == [tgt |-> EmptyDict, tgtDirs |-> {}, stateFile |-> << >>]

\* nothing has run, nothing has gone wrong, and there is no Android tree yet
InitRest ==
  /\ tgt = EmptyDict
  /\ tgtDirs = {}
  /\ stateFile = << >>
  /\ pc = "idle"
  /\ dry_run = FALSE
  /\ interactive = FALSE
  /\ files = None
  /\ todo = {}
  /\ new_mapping = EmptyDict
  /\ new_checksums = EmptyDict
  /\ clock = 0
  /\ runs = 0
  /\ srcEdits = 0
  /\ handEdits = 0
  /\ log = EmptyDict
  /\ pre = NoRun
  /\ detected = {}
  /\ lastEnd = "none"
  /\ clean = FALSE
  /\ wasClean = FALSE
  /\ unreadable = {}
  /\ unwritable = {}
  /\ faults = 0

Init ==
  /\ src \in UNION {[S -> {SwiftV1}] : S \in SUBSET SourcePaths}
  /\ ios_exists = TRUE
  /\ android_exists = FALSE
  /\ InitRest

(* ------------------------------------------------------------------ *)
(* convert_project.main                                                *)
(* ------------------------------------------------------------------ *)
InitialConversion ==
  /\ pc = "idle"
  /\ stateFile = << >>
  /\ ios_exists
  /\ LET seeded == SeededFiles(src)
         targets == {InitialTarget(p, src, PackageName) : p \in seeded}
         file_mapping == [p \in seeded |-> InitialTarget(p, src, PackageName)]
     IN \* files with the same target are written one over the other; the last one stays
        \E last \in [targets -> seeded] :
          /\ \A t \in targets : InitialTarget(last[t], src, PackageName) = t
          /\ tgt' = [t \in DOMAIN tgt \cup targets |->
                       IF t \in targets THEN InitialContent(last[t], src, PackageName)
                       ELSE tgt[t]]
          /\ stateFile' = <<JsonObject(create_sync_state(file_mapping, PackageName,
                                                        clock + 1))>>
  /\ tgtDirs' = tgtDirs \cup create_directory_structure(PackageName)
  /\ clock' = clock + 1
  /\ lastEnd' = "converted"
  /\ android_exists' = TRUE
  /\ UNCHANGED <<ios_exists, unreadable, unwritable, faults>>
  /\ UNCHANGED <<src, pc, runVars, countVars, log, pre, detected, clean, wasClean>>

(* ------------------------------------------------------------------ *)
(* sync_projects                                                       *)
(* ------------------------------------------------------------------ *)
\* lines 313-353: load the state, detect, filter, return early or enter the loop
StartSync ==
  /\ pc = "idle"
  /\ ~RootsMissing(ios_exists, android_exists)
  /\ LoadOutcome(stateFile) = "loaded"
  /\ Unhashable(src, unreadable) = {}
  /\ runs < MaxRuns
  /\ runs' = runs + 1
  /\ LET all == detect_changes(src, State)
     IN \E d \in BOOLEAN, i \in BOOLEAN, f \in FileFilters, since \in Sinces :
          LET changes == ChangesOfRun(src, State, since, f)
          IN /\ detected' = all
             /\ IF changes = {}
                THEN /\ pc' = "idle"
                     /\ lastEnd' = "nochanges"
                     /\ clean' = (clean \/ (~d /\ ~i /\ f = None))
                ELSE /\ pc' = "loop"
                     /\ lastEnd' = "running"
                     /\ clean' = clean
             /\ todo' = changes
             /\ dry_run' = d
             /\ interactive' = i
             /\ files' = f
  /\ new_mapping' = State.fileMapping
  /\ new_checksums' = State.checksums
  /\ log' = EmptyDict
  /\ pre' = [tgt |-> tgt, tgtDirs |-> tgtDirs, stateFile |-> stateFile]
  /\ wasClean' = clean
  /\ UNCHANGED envVars
  /\ UNCHANGED <<src, treeVars, stateFile, clock, srcEdits, handEdits>>

\* a sync that ends before its loop leaves no locals and no list behind
EndsEarly(how) ==
  /\ pc = "idle"
  /\ lastEnd' = how
  /\ dry_run' = FALSE
  /\ interactive' = FALSE
  /\ files' = None
  /\ todo' = {}
  /\ new_mapping' = EmptyDict
  /\ new_checksums' = EmptyDict
  /\ log' = EmptyDict
  /\ detected' = {}
  /\ pre' = [tgt |-> tgt, tgtDirs |-> tgtDirs, stateFile |-> stateFile]
  /\ wasClean' = FALSE
  /\ UNCHANGED <<src, treeVars, stateFile, pc, clock, countVars, clean>>
  /\ UNCHANGED envVars

\* main lines 409-415 and sync_projects lines 315-317: sys.exit(1) when a root is
\* missing or load_sync_state returns None
SyncRefused ==
  /\ \/ RootsMissing(ios_exists, android_exists)
     \/ LoadOutcome(stateFile) \in {"absent", "invalid"}
  /\ EndsEarly("error")

\* an exception nothing catches ends the run before the loop: data.get on a parsed
\* value that is no object (line 48), read_bytes on an unreadable file (line 79)
SyncCrashes ==
  /\ ~RootsMissing(ios_exists, android_exists)
  /\ \/ LoadOutcome(stateFile) = "raises"
     \/ LoadOutcome(stateFile) = "loaded" /\ Unhashable(src, unreadable) # {}
  /\ EndsEarly("crashed")

\* lines 332-344: the counts the run prints, by name; nothing when the list is empty
ReportedCounts(changes) ==
  IF changes = {}
  THEN EmptyDict
  ELSE [k \in {"added", "modified", "deleted"} |->
          Cardinality({c \in changes : c.change_type = k})]

\* one record of the history of the run
LogEntry(change, applied, r, tree) ==
  LET target == IF change.change_type = "deleted" \/ ~applied
                THEN change.android_path ELSE r.result
      made == applied /\ change.change_type # "deleted" /\ r.result # None
  IN [change |-> change,
      applied |-> applied,
      result |-> r.result,
      target |-> target,
      existed |-> target \in DOMAIN tree,
      old |-> Get(tree, target),
      gen |-> IF made
              THEN GeneratedContent(change.ios_path, r.result, src[change.ios_path])
              ELSE None,
      exists |-> target \in DOMAIN r.tgt,
      new |-> Get(r.tgt, target)]

\* the exit status of the last command: sys.exit(1), or an uncaught exception
ExitCode == IF lastEnd \in {"error", "crashed"} THEN 1 ELSE 0

\* a variant that saves the checksums it loaded
SavedState_KeepChecksums(st, now, commit, mapping, checksums) ==
  [lastSyncDate |-> now, iosCommit |-> commit, packageName |-> st.packageName,
   fileMapping |-> mapping, checksums |-> st.checksums]

\* save_sync_state with the fields lines 380-383 set
SavedState(st, now, commit, mapping, checksums) ==
  [lastSyncDate |-> now, iosCommit |-> commit, packageName |-> st.packageName,
   fileMapping |-> mapping, checksums |-> checksums]

\* a variant that saves what the loop has gathered before it returns
AnswerQuit_Saves ==
  /\ pc = "loop"
  /\ interactive /\ ~dry_run
  /\ todo # {}
  /\ pc' = "idle"
  /\ lastEnd' = "aborted"
  /\ clock' = clock + 1
  /\ stateFile' = <<JsonObject(SavedState(State, clock + 1, GitHead, new_mapping,
                                       new_checksums))>>
  /\ UNCHANGED envVars
  /\ UNCHANGED <<src, treeVars, runVars, countVars, log, pre, detected, clean, wasClean>>

\* lines 356-360: the answer q ends the run
AnswerQuit ==
  /\ pc = "loop"
  /\ interactive /\ ~dry_run
  /\ todo # {}
  /\ pc' = "idle"
  /\ lastEnd' = "aborted"
  /\ UNCHANGED envVars
  /\ UNCHANGED <<src, treeVars, stateFile, runVars, clock, countVars, log, pre,
                 detected, clean, wasClean>>

\* lines 361-362: any answer but y and q skips the change
AnswerNo ==
  /\ pc = "loop"
  /\ interactive /\ ~dry_run
  /\ \E change \in NextChanges(todo) :
       /\ todo' = todo \ {change}
       /\ log' = Put(log, change.ios_path,
                       LogEntry(change, FALSE,
                                [result |-> None, tgt |-> tgt, dirs |-> tgtDirs], tgt))
  /\ UNCHANGED envVars
  /\ UNCHANGED <<src, treeVars, stateFile, pc, dry_run, interactive, files, new_mapping,
                 new_checksums, clock, countVars, pre, detected, lastEnd, clean,
                 wasClean>>

\* a variant that records a checksum only for a change that produced a file
LoopBody_ChecksumIfWritten(change, source, tree, dirs, mapping, checksums, package_name, dry) ==
  LET r == apply_change(change, source, tree, dirs, package_name, dry)
  IN [result |-> r.result,
      tgt |-> r.tgt,
      dirs |-> r.dirs,
      new_mapping |->
        IF dry THEN mapping
        ELSE IF change.change_type = "deleted" THEN Del(mapping, change.ios_path)
        ELSE IF r.result # None THEN Put(mapping, change.ios_path, r.result)
        ELSE mapping,
      new_checksums |->
        IF dry THEN checksums
        ELSE IF change.change_type = "deleted" THEN Del(checksums, change.ios_path)
        ELSE IF r.result # None
        THEN Put(checksums, change.ios_path, change.new_checksum)
        ELSE checksums]

\* lines 364-376: the body of the loop for one change, on the Android tree and on
\* the two dicts of the run
LoopBody(change, source, tree, dirs, mapping, checksums, package_name, dry) ==
  LET r == apply_change(change, source, tree, dirs, package_name, dry)
  IN [result |-> r.result,
      tgt |-> r.tgt,
      dirs |-> r.dirs,
      new_mapping |->
        IF dry THEN mapping
        ELSE IF change.change_type = "deleted" THEN Del(mapping, change.ios_path)
        ELSE IF r.result # None THEN Put(mapping, change.ios_path, r.result)
        ELSE mapping,
      new_checksums |->
        IF dry THEN checksums
        ELSE IF change.change_type = "deleted" THEN Del(checksums, change.ios_path)
        ELSE IF change.new_checksum # None
        THEN Put(checksums, change.ios_path, change.new_checksum)
        ELSE checksums]

\* lines 364-376: the change is applied (answer y, or no prompt) and recorded
ApplyNext ==
  /\ pc = "loop"
  /\ \E change \in NextChanges(todo) :
       LET r == LoopBody(change, src, tgt, tgtDirs, new_mapping, new_checksums,
                         State.packageName, dry_run)
       IN /\ ~ApplyRaises(change, src, tgt, State.packageName, dry_run, unreadable,
                          unwritable)
          /\ tgt' = r.tgt
          /\ tgtDirs' = r.dirs
          /\ todo' = todo \ {change}
          /\ log' = Put(log, change.ios_path, LogEntry(change, TRUE, r, tgt))
          /\ new_mapping' = r.new_mapping
          /\ new_checksums' = r.new_checksums
  /\ UNCHANGED envVars
  /\ UNCHANGED <<src, stateFile, pc, dry_run, interactive, files, clock, countVars, pre,
                 detected, lastEnd, clean, wasClean>>

\* an exception of apply_change ends the run inside the loop: nothing is saved
ApplyCrashes ==
  /\ pc = "loop"
  /\ \E change \in NextChanges(todo) :
       /\ ApplyRaises(change, src, tgt, State.packageName, dry_run, unreadable, unwritable)
       /\ tgtDirs' = IF change.change_type # "deleted" /\ change.ios_path \notin unreadable
                     THEN apply_change(change, src, tgt, tgtDirs, State.packageName,
                                       dry_run).dirs
                     ELSE tgtDirs
  /\ pc' = "idle"
  /\ lastEnd' = "crashed"
  /\ UNCHANGED <<src, tgt, stateFile, runVars, clock, countVars, log, pre, detected,
                 clean, wasClean>>
  /\ UNCHANGED envVars

\* a variant that saves the state in a dry run too
FinishSync_SavesInDryRun ==
  /\ pc = "loop"
  /\ todo = {}
  /\ pc' = "idle"
  /\ lastEnd' = "completed"
  /\ clock' = clock + 1
  /\ stateFile' = <<JsonObject(SavedState(State, clock + 1, GitHead, new_mapping,
                                          new_checksums))>>
  /\ clean' = (clean \/ (~dry_run /\ ~interactive /\ files = None))
  /\ UNCHANGED envVars
  /\ UNCHANGED <<src, treeVars, runVars, countVars, log, pre, detected, wasClean>>

\* lines 378-392: after the loop
FinishSync ==
  /\ pc = "loop"
  /\ todo = {}
  /\ pc' = "idle"
  /\ lastEnd' = "completed"
  /\ IF dry_run
     THEN UNCHANGED <<stateFile, clock, clean>>
     ELSE /\ clock' = clock + 1
          /\ stateFile' = <<JsonObject(SavedState(State, clock + 1, GitHead, new_mapping,
                                                  new_checksums))>>
          /\ clean' = (clean \/ (~interactive /\ files = None))
  /\ UNCHANGED envVars
  /\ UNCHANGED <<src, treeVars, runVars, countVars, log, pre, detected, wasClean>>

(* ------------------------------------------------------------------ *)
(* The people around the tool, between runs                            *)
(* ------------------------------------------------------------------ *)
\* the locals and the history of the last run end where somebody changes a tree
Forget ==
  /\ dry_run' = FALSE
  /\ interactive' = FALSE
  /\ files' = None
  /\ todo' = {}
  /\ new_mapping' = EmptyDict
  /\ new_checksums' = EmptyDict
  /\ log' = EmptyDict
  /\ pre' = NoRun
  /\ detected' = {}
  /\ lastEnd' = "edited"
  /\ wasClean' = FALSE

\* a Swift file is edited, or created (with the text new files start with)
WriteSource(p, text) ==
  /\ pc = "idle"
  /\ ios_exists
  /\ stateFile # << >>
  /\ runs < MaxRuns
  /\ srcEdits < MaxSrcEdits
  /\ IF p \in DOMAIN src THEN src[p] # text ELSE text = SwiftV1
  /\ src' = Put(src, p, text)
  /\ srcEdits' = srcEdits + 1
  /\ clean' = FALSE
  /\ Forget
  /\ UNCHANGED envVars
  /\ UNCHANGED <<treeVars, stateFile, pc, clock, runs, handEdits>>

\* a Swift file is removed
RemoveSource(p) ==
  /\ pc = "idle"
  /\ stateFile # << >>
  /\ runs < MaxRuns
  /\ srcEdits < MaxSrcEdits
  /\ p \in DOMAIN src
  /\ src' = Del(src, p)
  /\ srcEdits' = srcEdits + 1
  /\ clean' = FALSE
  /\ Forget
  /\ UNCHANGED envVars
  /\ UNCHANGED <<treeVars, stateFile, pc, clock, runs, handEdits>>

\* a generated Kotlin file is edited by hand
HandEdit(t) ==
  /\ pc = "idle"
  /\ runs < MaxRuns
  /\ handEdits < MaxHandEdits
  /\ t \in DOMAIN tgt
  /\ tgt' = [tgt EXCEPT ![t] = Append(@, HandEditLine)]
  /\ handEdits' = handEdits + 1
  /\ Forget
  /\ UNCHANGED envVars
  /\ UNCHANGED <<src, tgtDirs, stateFile, pc, clock, runs, srcEdits, clean>>

\* a generated Kotlin file is deleted by hand
RemoveTarget(t) ==
  /\ pc = "idle"
  /\ runs < MaxRuns
  /\ handEdits < MaxHandEdits
  /\ t \in DOMAIN tgt
  /\ tgt' = Del(tgt, t)
  /\ handEdits' = handEdits + 1
  /\ Forget
  /\ UNCHANGED envVars
  /\ UNCHANGED <<src, tgtDirs, stateFile, pc, clock, runs, srcEdits, clean>>

(* ------------------------------------------------------------------ *)
(* What goes wrong around the tool, between runs                       *)
(* ------------------------------------------------------------------ *)
\* the forms a damaged state file takes
DamagedForms == {"invalid", "array", "no_dicts"}

\* the state file after damage: text that does not parse, a JSON array, or an
\* object that has lost its fileMapping and checksums members
Damaged(doc, form) ==
  CASE form = "invalid" -> [json |-> "invalid", data |-> EmptyDict]
    [] form = "array" -> [json |-> "array", data |-> EmptyDict]
    [] form = "no_dicts" ->
         JsonObject([k \in DOMAIN doc.data \ {"fileMapping", "checksums"} |-> doc.data[k]])

Fault ==
  /\ pc = "idle"
  /\ stateFile # << >>
  /\ runs < MaxRuns
  /\ faults < MaxFaults
  /\ faults' = faults + 1
  /\ Forget

\* the state file is damaged by an editor, a merge or a truncated copy
CorruptState(form) ==
  /\ Fault
  /\ LoadOutcome(stateFile) = "loaded"
  /\ stateFile' = <<Damaged(stateFile[1], form)>>
  /\ UNCHANGED <<src, treeVars, pc, clock, runs, srcEdits, handEdits, clean>>
  /\ UNCHANGED <<ios_exists, android_exists, unreadable, unwritable>>

\* the iOS project is moved away
RemoveIosRoot ==
  /\ Fault
  /\ ios_exists
  /\ ios_exists' = FALSE
  /\ src' = EmptyDict
  /\ clean' = FALSE
  /\ UNCHANGED <<treeVars, stateFile, pc, clock, runs, srcEdits, handEdits>>
  /\ UNCHANGED <<android_exists, unreadable, unwritable>>

\* a Swift file loses its read permission
LockSource(p) ==
  /\ Fault
  /\ p \in DOMAIN src \ unreadable
  /\ unreadable' = unreadable \cup {p}
  /\ UNCHANGED <<src, treeVars, stateFile, pc, clock, runs, srcEdits, handEdits, clean>>
  /\ UNCHANGED <<ios_exists, android_exists, unwritable>>

\* a Kotlin file becomes immutable: it can be read, not written and not unlinked
LockTarget(t) ==
  /\ Fault
  /\ t \in DOMAIN tgt \ unwritable
  /\ unwritable' = unwritable \cup {t}
  /\ UNCHANGED <<src, treeVars, stateFile, pc, clock, runs, srcEdits, handEdits, clean>>
  /\ UNCHANGED <<ios_exists, android_exists, unreadable>>

Next ==
  \/ InitialConversion
  \/ StartSync
  \/ SyncRefused
  \/ AnswerQuit
  \/ AnswerNo
  \/ ApplyNext
  \/ FinishSync
  \/ \E p \in SourcePaths, text \in SwiftTexts : WriteSource(p, text)
  \/ \E p \in SourcePaths : RemoveSource(p)
  \/ \E t \in DOMAIN tgt : HandEdit(t)

Spec == Init /\ [][Next]_vars

(* ------------------------------------------------------------------ *)
(* The tool where things go wrong                                      *)
(* ------------------------------------------------------------------ *)
FaultPaths == {PModel, PTest}

\* the Android root may be there, empty, before the first command
InitFaults ==
  /\ src \in UNION {[S -> {SwiftV1}] : S \in SUBSET FaultPaths}
  /\ ios_exists = TRUE
  /\ android_exists \in BOOLEAN
  /\ InitRest

NextFaults ==
  \/ InitialConversion
  \/ StartSync
  \/ SyncRefused
  \/ SyncCrashes
  \/ AnswerQuit
  \/ AnswerNo
  \/ ApplyNext
  \/ ApplyCrashes
  \/ FinishSync
  \/ \E p \in FaultPaths, text \in SwiftTexts : WriteSource(p, text)
  \/ \E p \in FaultPaths : RemoveSource(p)
  \/ \E form \in DamagedForms : CorruptState(form)
  \/ RemoveIosRoot
  \/ \E p \in FaultPaths : LockSource(p)
  \/ \E t \in DOMAIN tgt : LockTarget(t)

SpecFaults == InitFaults /\ [][NextFaults]_vars

(* ------------------------------------------------------------------ *)
(* The tool on a project with a vendored library and a file the two    *)
(* classifiers place differently                                       *)
(* ------------------------------------------------------------------ *)
InitWide ==
  /\ src \in UNION {[S -> {SwiftV4}] : S \in SUBSET WidePaths}
  /\ ios_exists = TRUE
  /\ android_exists = FALSE
  /\ InitRest

NextWide ==
  \/ InitialConversion
  \/ StartSync
  \/ SyncRefused
  \/ AnswerQuit
  \/ AnswerNo
  \/ ApplyNext
  \/ FinishSync
  \/ \E p \in WidePaths, text \in WideTexts : WriteSource(p, text)
  \/ \E p \in WidePaths : RemoveSource(p)
  \/ \E t \in DOMAIN tgt : HandEdit(t)

SpecWide == InitWide /\ [][NextWide]_vars

(* ------------------------------------------------------------------ *)
(* The tool on a project whose generated files are edited and deleted  *)
(* by hand                                                             *)
(* ------------------------------------------------------------------ *)
OutcomePaths == {PModel, PTest}

InitOutcomes ==
  /\ src \in UNION {[S -> {SwiftV1}] : S \in SUBSET OutcomePaths}
  /\ ios_exists = TRUE
  /\ android_exists = FALSE
  /\ InitRest

NextOutcomes ==
  \/ InitialConversion
  \/ StartSync
  \/ SyncRefused
  \/ AnswerQuit
  \/ AnswerNo
  \/ ApplyNext
  \/ FinishSync
  \/ \E p \in OutcomePaths, text \in SwiftTexts : WriteSource(p, text)
  \/ \E p \in OutcomePaths : RemoveSource(p)
  \/ \E t \in DOMAIN tgt : HandEdit(t)
  \/ \E t \in DOMAIN tgt : RemoveTarget(t)

SpecOutcomes == InitOutcomes /\ [][NextOutcomes]_vars

(* ------------------------------------------------------------------ *)
(* The tool on a model file that holds property-wrapper annotations    *)
(* ------------------------------------------------------------------ *)
MarkerPaths == {PModel}

InitMarkers ==
  /\ src \in UNION {[S -> {t}] : S \in SUBSET MarkerPaths, t \in MarkerTexts}
  /\ ios_exists = TRUE
  /\ android_exists = FALSE
  /\ InitRest

NextMarkers ==
  \/ InitialConversion
  \/ StartSync
  \/ SyncRefused
  \/ AnswerQuit
  \/ AnswerNo
  \/ ApplyNext
  \/ FinishSync
  \/ \E p \in MarkerPaths, text \in MarkerTexts : WriteSource(p, text)
  \/ \E p \in MarkerPaths : RemoveSource(p)
  \/ \E t \in DOMAIN tgt : HandEdit(t)

SpecMarkers == InitMarkers /\ [][NextMarkers]_vars

(* ------------------------------------------------------------------ *)
(* The tool on a project with a directory named MyPods                 *)
(* ------------------------------------------------------------------ *)
InitSuffix ==
  /\ src \in UNION {[S -> {SwiftV4}] : S \in SUBSET SuffixPaths}
  /\ ios_exists = TRUE
  /\ android_exists = FALSE
  /\ InitRest

NextSuffix ==
  \/ InitialConversion
  \/ StartSync
  \/ SyncRefused
  \/ AnswerQuit
  \/ AnswerNo
  \/ ApplyNext
  \/ FinishSync
  \/ \E p \in SuffixPaths, text \in WideTexts : WriteSource(p, text)
  \/ \E p \in SuffixPaths : RemoveSource(p)
  \/ \E t \in DOMAIN tgt : HandEdit(t)

SpecSuffix == InitSuffix /\ [][NextSuffix]_vars

(* ------------------------------------------------------------------ *)
(* classify_file on its own, on files that match several of its rules  *)
(* ------------------------------------------------------------------ *)
\* relative paths: each names the rules of classify_file it matches
ClassifyPaths ==
  {PTest,                                                        \* test
   <<"Test", "s", "/", "Profile", ".swift">>,                    \* test, by directory
   <<"Profile", "ViewModel", "Test", "s", ".swift">>,            \* test, viewmodel
   <<"Profile", "ViewModel", ".swift">>,                         \* viewmodel
   <<"Model", "s", "/", "Profile", "VM", ".swift">>,             \* viewmodel, model
   PModel,                                                       \* model
   <<"Network", "/", "Model", "s", "/", "Profile", ".swift">>,   \* model, service
   <<"API", "/", "Extension", "s", "/", "Profile", ".swift">>,   \* service, extension
   <<"Extension", "s", "/", "Util", "s", ".swift">>,             \* extension, utility
   <<"Helper", "s", "/", "Profile", ".swift">>,                  \* utility
   PUser}                                                        \* none

\* contents: a SwiftUI view that is Codable, a Codable view controller, a Codable
\* struct, a class (no rule), a view protocol without a body (no rule), no type
ClassifyTexts ==
  {<<"struct", "Row", ":", "View", ",", "Codable", "{", "var", "body:", "some", "View", "}">>,
   <<"class", "C", ":", "UIViewController", "{", "struct", "S", ":", "Codable", "}">>,
   <<"struct", "User", ":", "Codable">>,
   SwiftV4,
   <<"protocol", "Row", ":", "View">>,
   SwiftV1}

InitClassify ==
  /\ src \in {[x \in {p} |-> t] : p \in ClassifyPaths, t \in ClassifyTexts}
  /\ ios_exists = TRUE
  /\ android_exists = FALSE
  /\ InitRest

\* apply_change line 253: the file is classified; the log keeps what came back
ClassifyFile(p) ==
  /\ p \in DOMAIN src
  /\ p \notin DOMAIN log
  /\ log' = Put(log, p, [content |-> src[p], file_type |-> classify_file(p, src[p])])
  /\ UNCHANGED <<src, treeVars, stateFile, pc, runVars, clock, countVars, pre, detected,
                 lastEnd, clean, wasClean, envVars>>

NextClassify == \E p \in ClassifyPaths : ClassifyFile(p)

SpecClassify == InitClassify /\ [][NextClassify]_vars

(* ------------------------------------------------------------------ *)
(* determine_android_path on its own                                   *)
(* ------------------------------------------------------------------ *)
\* two files with one stem in different directories, and two other stems
ResolvePaths == {PModel, PArchive, PUser, PTest}

\* the roles classify_file returns, and one it does not
ResolveRoles ==
  {"model", "viewmodel", "view", "service", "extension", "utility", "other", "test",
   "widget"}

ResolvePackages == {PackageName, <<"org", ".", "demo", ".", "app">>, <<"demo">>}

InitResolve ==
  /\ src \in {[x \in {p} |-> SwiftV1] : p \in ResolvePaths}
  /\ ios_exists = TRUE
  /\ android_exists = FALSE
  /\ InitRest

\* apply_change line 264: the target path is resolved; the log keeps the last call
ResolvePath(p, file_type, package_name) ==
  /\ p \in DOMAIN src
  /\ log' = [x \in {p} |->
               [file_type |-> file_type,
                package_name |-> package_name,
                target_rel |-> determine_android_path(p, file_type, package_name)]]
  /\ UNCHANGED <<src, treeVars, stateFile, pc, runVars, clock, countVars, pre, detected,
                 lastEnd, clean, wasClean, envVars>>

NextResolve ==
  \E p \in ResolvePaths, file_type \in ResolveRoles, package_name \in ResolvePackages :
    ResolvePath(p, file_type, package_name)

SpecResolve == InitResolve /\ [][NextResolve]_vars

(* ------------------------------------------------------------------ *)
(* Vocabulary of the properties                                         *)
(* ------------------------------------------------------------------ *)
\* the text holds the conflict delimiters
HasConflictDelimiters(text) ==
  Contains(text, <<ConflictOpen>>) /\ Contains(text, <<ConflictClose>>)

\* the Swift text a stored checksum is the hash of
OldText(checksum) == CHOOSE t \in AllTexts : Md5(t) = checksum

\* the state file as the run found it
PreState == load_sync_state(pre.stateFile)

\* a sync run got through its loop and, unless dry, saved the state
Completed == pc = "idle" /\ lastEnd = "completed"

\* the changes the loop applied (apply_change was called), by source path
Applied == {p \in DOMAIN log : log[p].applied}

\* the changes for which apply_change wrote a target file
Written == {p \in Applied : log[p].change.change_type # "deleted"
                            /\ log[p].result # None /\ ~dry_run}

\* the changes an interactive answer other than y and q skipped
Rejected == {p \in DOMAIN log : ~log[p].applied}

\* added or modified changes apply_change gave up (test file, source gone)
Skipped == {p \in Applied : log[p].change.change_type # "deleted" /\ log[p].result = None}

(* ------------------------------------------------------------------ *)
(* C1                                                                   *)
(* ------------------------------------------------------------------ *)
\* C1: in a non-dry-run sync, a 'modified' change whose target exists is written
\* with conflict delimiters when the existing text differs from the generated
\* text, and as the generated text, without delimiters, when they are identical.
C1_ConflictSafety ==
  \A p \in Written :
    (log[p].change.change_type = "modified" /\ log[p].existed) =>
      /\ log[p].old # log[p].gen => HasConflictDelimiters(log[p].new)
      /\ log[p].old = log[p].gen =>
           log[p].new = log[p].gen /\ ~HasConflictDelimiters(log[p].new)

\* one run wrote a conflict for one modified file and wrote through for another
C1_Witness ==
  \E p, q \in Written :
    /\ log[p].change.change_type = "modified" /\ log[p].existed
    /\ log[p].old # log[p].gen
    /\ log[q].change.change_type = "modified" /\ log[q].existed
    /\ log[q].old = log[q].gen

(* ------------------------------------------------------------------ *)
(* C2                                                                   *)
(* ------------------------------------------------------------------ *)
\* C2: no change of any kind replaces the text of an existing target file by a
\* text that does not contain it, unless the old text equals the generated text.
C2_NonDestructive ==
  \A p \in Written :
    log[p].existed => (log[p].old = log[p].gen \/ Contains(log[p].new, log[p].old))

(* ------------------------------------------------------------------ *)
(* C3                                                                   *)
(* ------------------------------------------------------------------ *)
\* C3: when a tracked source file was edited and its target still holds what the
\* previous sync generated from the file's previous text, the sync writes the newly
\* generated text, without conflict delimiters.
C3_SilentRewrite ==
  \A p \in Written :
    ( /\ log[p].change.change_type = "modified"
      /\ log[p].existed
      /\ log[p].old = GeneratedContent(p, log[p].target,
                                       OldText(log[p].change.old_checksum)) ) =>
      (log[p].new = log[p].gen /\ ~HasConflictDelimiters(log[p].new))

(* ------------------------------------------------------------------ *)
(* C4                                                                   *)
(* ------------------------------------------------------------------ *)
\* C4: a run that starts after a completed non-dry-run, non-interactive, unfiltered
\* run, with the source tree unchanged since, detects no change and writes and
\* deletes nothing in the Android tree.
C4_Idempotence ==
  wasClean =>
    /\ detected = {}
    /\ pc = "idle"
    /\ log = EmptyDict
    /\ tgt = pre.tgt /\ tgtDirs = pre.tgtDirs

\* such a second run, after a run that saved checksums
C4_Witness ==
  /\ wasClean
  /\ lastEnd = "nochanges"
  /\ clock >= 2
  /\ DOMAIN State.fileMapping # {}
  /\ DOMAIN State.checksums # {}

(* ------------------------------------------------------------------ *)
(* C5                                                                   *)
(* ------------------------------------------------------------------ *)
\* C5: after every completed non-dry-run sync, every key of the persisted
\* fileMapping is a key of the persisted checksums.
C5_MappingHasChecksum ==
  (Completed /\ ~dry_run) => DOMAIN State.fileMapping \subseteq DOMAIN State.checksums

(* ------------------------------------------------------------------ *)
(* C6                                                                   *)
(* ------------------------------------------------------------------ *)
\* C6: after a completed non-dry-run sync, the path of every applied 'deleted'
\* change is in neither fileMapping nor checksums, and its mapped target file, if
\* it had one, does not exist.
C6_DeletionSymmetry ==
  (Completed /\ ~dry_run) =>
    \A p \in Applied :
      log[p].change.change_type = "deleted" =>
        /\ p \notin DOMAIN State.fileMapping
        /\ p \notin DOMAIN State.checksums
        /\ log[p].change.android_path # None =>
             log[p].change.android_path \notin DOMAIN tgt

\* a completed run deleted a tracked path whose mapped target file existed
C6_Witness ==
  /\ Completed /\ ~dry_run
  /\ \E p \in Applied :
       /\ log[p].change.change_type = "deleted"
       /\ p \in DOMAIN PreState.fileMapping
       /\ p \in DOMAIN PreState.checksums
       /\ log[p].existed

(* ------------------------------------------------------------------ *)
(* C7                                                                   *)
(* ------------------------------------------------------------------ *)
\* C7: when the answer q ended the run, the state file is what it was before the
\* run (fileMapping, checksums, timestamp, revision).
C7_AbortKeepsState ==
  lastEnd = "aborted" => stateFile = pre.stateFile

\* q after a change that was accepted and written and one that was rejected
C7_Witness ==
  /\ lastEnd = "aborted"
  /\ Written # {}
  /\ Rejected # {}
  /\ tgt # pre.tgt
  /\ new_checksums # PreState.checksums

(* ------------------------------------------------------------------ *)
(* C8                                                                   *)
(* ------------------------------------------------------------------ *)
\* C8: an added or modified change that was skipped (test file, unreadable source)
\* is not recorded in the persisted checksums: with the source unchanged, the
\* next run detects the same change.
C8_SkippedStaysDetected ==
  (Completed /\ ~dry_run) =>
    \A p \in Skipped :
      /\ Get(State.checksums, p) = Get(PreState.checksums, p)
      /\ log[p].change \in detect_changes(src, State)

(* ------------------------------------------------------------------ *)
(* C9                                                                   *)
(* ------------------------------------------------------------------ *)
\* C9: after a completed interactive run, a rejected change has left the path's
\* fileMapping and checksums entries as they were, the same change is detected
\* again, and the target file of a rejected deletion is in place.
C9_RejectedStaysDetected ==
  (Completed /\ ~dry_run) =>
    \A p \in Rejected :
      /\ (p \in DOMAIN State.fileMapping) = (p \in DOMAIN PreState.fileMapping)
      /\ Get(State.fileMapping, p) = Get(PreState.fileMapping, p)
      /\ (p \in DOMAIN State.checksums) = (p \in DOMAIN PreState.checksums)
      /\ Get(State.checksums, p) = Get(PreState.checksums, p)
      /\ log[p].change \in detect_changes(src, State)
      /\ (log[p].change.change_type = "deleted" /\ log[p].existed) =>
           log[p].target \in DOMAIN tgt

(* ------------------------------------------------------------------ *)
(* C10                                                                  *)
(* ------------------------------------------------------------------ *)
\* C10: a dry run creates, modifies and deletes no file or directory of the Android
\* tree and leaves the state file unchanged.
C10_DryRunMutatesNothing ==
  dry_run => (tgt = pre.tgt /\ tgtDirs = pre.tgtDirs /\ stateFile = pre.stateFile)

\* a completed dry run that went through an added, a modified and a deleted change
C10_Witness ==
  /\ dry_run /\ Completed
  /\ \E a, m, d \in Applied :
       /\ log[a].change.change_type = "added"
       /\ log[m].change.change_type = "modified" /\ log[m].result # None
       /\ log[m].existed
       /\ log[d].change.change_type = "deleted" /\ log[d].existed

(* ------------------------------------------------------------------ *)
(* C15                                                                  *)
(* ------------------------------------------------------------------ *)
\* the tokens of a text
Tokens(text) == {text[i] : i \in DOMAIN text}

\* text is: something with the opening delimiter, the whole of old, something with
\* the closing delimiter, the whole of gen, and nothing after it
PreservesBoth(text, old, gen) ==
  \E i \in 1..Len(text) :
    LET oldEnd == i + Len(old) - 1
        genStart == Len(text) - Len(gen) + 1
    IN /\ oldEnd < genStart
       /\ SubSeq(text, i, oldEnd) = old
       /\ SubSeq(text, genStart, Len(text)) = gen
       /\ ConflictOpen \in Tokens(SubSeq(text, 1, i - 1))
       /\ ConflictClose \in Tokens(SubSeq(text, oldEnd + 1, genStart - 1))

\* the record of a change that met an existing target differing from its output
IsConflictCase(e) ==
  /\ e.applied /\ ~dry_run
  /\ e.change.change_type = "modified"
  /\ e.result # None
  /\ e.existed
  /\ e.old # e.gen

\* C15: when a 'modified' change finds an existing target whose content differs
\* from the generated content, the step writes exactly one file, at the path of that
\* target, and the file holds the whole existing content, then the whole generated
\* content, each verbatim, with the conflict delimiters around and between them.
C15_ConflictPreservesBoth ==
  [][\A p \in DOMAIN log' \ DOMAIN log :
       IsConflictCase(log'[p]) =>
         /\ log'[p].target \in DOMAIN tgt
         /\ log'[p].target \in DOMAIN tgt'
         /\ PreservesBoth(tgt'[log'[p].target], tgt[log'[p].target], log'[p].gen)
         /\ DOMAIN tgt' = DOMAIN tgt
         /\ \A t \in DOMAIN tgt : t # log'[p].target => tgt'[t] = tgt[t]]_vars

\* a conflict was written over a target that had been edited by hand
C15_Witness ==
  \E p \in Written :
    /\ IsConflictCase(log[p])
    /\ HandEditLine \in Tokens(log[p].old)
    /\ tgt[log[p].target] = log[p].new
    /\ PreservesBoth(log[p].new, log[p].old, log[p].gen)

(* ------------------------------------------------------------------ *)
(* C16                                                                  *)
(* ------------------------------------------------------------------ *)
\* a sync run that loaded the state has ended
RunEnded == pc = "idle" /\ lastEnd \in {"completed", "nochanges", "aborted"}

\* the counts the ended run has printed
Reported == ReportedCounts(FilterChanges(detected, files))

\* C16: every sync run that got past state loading has, when it ends, reported
\* counts of added, modified, deleted, skipped and conflicted files, and the
\* conflicted count is the number of files the run wrote with conflict delimiters.
C16_ReportsCounts ==
  RunEnded =>
    /\ {"added", "modified", "deleted", "skipped", "conflicted"} \subseteq DOMAIN Reported
    /\ Reported["conflicted"] = Cardinality({p \in Written : IsConflictCase(log[p])})

(* ------------------------------------------------------------------ *)
(* C18                                                                  *)
(* ------------------------------------------------------------------ *)
\* p was applied as a file the state did not know, and is not a test file
IsFirstSight(p) ==
  /\ p \in Applied
  /\ log[p].change.change_type = "added"
  /\ p \notin DOMAIN PreState.fileMapping
  /\ p \notin DOMAIN PreState.checksums
  /\ SyncRole[p][src[p]] # "test"

\* C18: a completed non-dry-run sync that applied an untracked, non-test file of
\* role r has written the generated text at the Path Resolver's location for
\* (file name, r, package) and maps the source path to that location; the file is
\* not detected again, and after a full run nothing is.
C18_FirstSight ==
  (Completed /\ ~dry_run) =>
    \A p \in DOMAIN log :
      IsFirstSight(p) =>
        LET target == determine_android_path(p, SyncRole[p][src[p]], PreState.packageName)
        IN /\ log[p].target = target
           /\ log[p].exists /\ log[p].new = log[p].gen
           /\ Get(State.fileMapping, p) = target
           /\ \A c \in detect_changes(src, State) : c.ios_path # p
           /\ (~interactive /\ files = None) => detect_changes(src, State) = {}

\* a full run met a new model file and put it in the model directory
C18_Witness ==
  /\ Completed /\ ~dry_run /\ ~interactive /\ files = None
  /\ \E p \in DOMAIN log :
       /\ IsFirstSight(p)
       /\ SyncRole[p][src[p]] = "model"
       /\ ~log[p].existed
       /\ p \in DOMAIN State.fileMapping
       /\ State.fileMapping[p] \in DOMAIN tgt

(* ------------------------------------------------------------------ *)
(* C20                                                                  *)
(* ------------------------------------------------------------------ *)
\* the sequences that list every element of S once
Orders(S) ==
  {o \in [1..Cardinality(S) -> S] : \A i, j \in DOMAIN o : o[i] = o[j] => i = j}

\* the Android tree and the dicts after the loop body has run on the changes
\* order[from], order[from + 1], ... in turn
RECURSIVE ApplyInOrder(_, _, _)
ApplyInOrder(order, from, acc) ==
  IF from > Len(order)
  THEN acc
  ELSE ApplyInOrder(order, from + 1,
                    LoopBody(order[from], src, acc.tgt, acc.dirs, acc.new_mapping,
                             acc.new_checksums, PreState.packageName, FALSE))

\* what the run started from
RunStart ==
  [result |-> None, tgt |-> pre.tgt, dirs |-> pre.tgtDirs,
   new_mapping |-> PreState.fileMapping, new_checksums |-> PreState.checksums]

\* the outcome is the Android tree and the persisted dicts of this state
IsOutcome(acc) ==
  /\ acc.tgt = tgt
  /\ acc.new_mapping = State.fileMapping
  /\ acc.new_checksums = State.checksums

\* C20: the Android tree and the persisted fileMapping and checksums a completed
\* non-dry-run sync leaves are those that result from applying its deleted changes
\* first and its added and modified changes after them.
C20_DeletedIndependent ==
  (Completed /\ ~dry_run) =>
    LET done == {log[p].change : p \in Applied}
        dels == {c \in done : c.change_type = "deleted"}
    IN \E d \in Orders(dels), o \in Orders(done \ dels) :
         IsOutcome(ApplyInOrder(o, 1, ApplyInOrder(d, 1, RunStart)))

\* the order the loop takes, deleted changes last, gives what the run left
C20_LoopOrder ==
  (Completed /\ ~dry_run) =>
    LET done == {log[p].change : p \in Applied}
        dels == {c \in done : c.change_type = "deleted"}
    IN \E d \in Orders(dels), o \in Orders(done \ dels) :
         IsOutcome(ApplyInOrder(d, 1, ApplyInOrder(o, 1, RunStart)))

(* ------------------------------------------------------------------ *)
(* C11                                                                  *)
(* ------------------------------------------------------------------ *)
\* a sync command was started and runs or has ended; pre is what it found
SyncSeen ==
  lastEnd \in {"running", "completed", "nochanges", "aborted", "error", "crashed"}

\* the file is there and is not an object with fileMapping and checksums
Malformed(file) ==
  /\ file # << >>
  /\ \/ file[1].json # "object"
     \/ ~({"fileMapping", "checksums"} \subseteq DOMAIN file[1].data)

\* the command has ended with an error and has left both trees as it found them
EndedUntouched ==
  /\ pc = "idle"
  /\ ExitCode # 0
  /\ tgt = pre.tgt /\ tgtDirs = pre.tgtDirs
  /\ stateFile = pre.stateFile

\* C11: a sync that finds a state file that does not parse, is no object or lacks
\* the fileMapping or checksums member ends with an error, with no target file
\* and no state written or deleted; it never goes on with an empty baseline.
C11_MalformedStateIsFatal ==
  (SyncSeen /\ Malformed(pre.stateFile)) => EndedUntouched

(* ------------------------------------------------------------------ *)
(* C12                                                                  *)
(* ------------------------------------------------------------------ *)
\* C12: a sync started without a state file, or with a root that does not exist,
\* ends with a non-zero exit before any change is detected and with no target file
\* and no state file written or deleted.
C12_MissingBaselineBlocks ==
  (SyncSeen /\ (pre.stateFile = << >> \/ ~ios_exists \/ ~android_exists)) =>
    /\ lastEnd = "error"
    /\ EndedUntouched
    /\ detected = {} /\ todo = {} /\ log = EmptyDict

\* a sync was refused where both roots exist, with sources, and no state file
C12_Witness ==
  /\ lastEnd = "error"
  /\ pre.stateFile = << >>
  /\ ios_exists /\ android_exists
  /\ DOMAIN src # {}

(* ------------------------------------------------------------------ *)
(* C13                                                                  *)
(* ------------------------------------------------------------------ *)
\* writing or unlinking the target of the change fails
TargetFails(c) == ApplyRaises(c, src, tgt, PreState.packageName, FALSE, {}, unwritable)

\* C13: when a target of a non-dry-run sync cannot be written or unlinked, the run
\* still completes: every other change of the list is processed, and the state
\* is saved with what the loop gathered for the changes it applied.
C13_UnwritableTargetIsLocal ==
  ( /\ pc = "idle" /\ lastEnd \in {"completed", "crashed"}
    /\ ~dry_run
    /\ \E c \in todo : TargetFails(c) ) =>
    /\ lastEnd = "completed"
    /\ \A c \in todo : TargetFails(c)
    /\ State.fileMapping = new_mapping
    /\ State.checksums = new_checksums

(* ------------------------------------------------------------------ *)
(* C14                                                                  *)
(* ------------------------------------------------------------------ *)
\* C14: a sync that loads its state and meets a source file it cannot read is not
\* ended by it: the run ends as a run without that file would, and writes no
\* target for the file.
C14_UnreadableSourceIsSkipped ==
  ( /\ pc = "idle" /\ SyncSeen
    /\ ios_exists /\ android_exists
    /\ LoadOutcome(pre.stateFile) = "loaded"
    /\ Unhashable(src, unreadable) # {} ) =>
    /\ lastEnd \in {"completed", "nochanges", "aborted"}
    /\ \A p \in unreadable : p \notin Written

(* ------------------------------------------------------------------ *)
(* C17                                                                  *)
(* ------------------------------------------------------------------ *)
\* a directory component of the relative path is one of the excluded names
UnderExcludedDir(p) ==
  \E i \in 1..(Len(p) - 1) :
    /\ p[i] \in ExcludedDirs
    /\ p[i + 1] = "/"
    /\ (i = 1 \/ p[i - 1] = "/")

\* C17: no change list, whatever the source tree and whatever state the runs have
\* persisted, holds a change of any kind for a file under a directory named Pods,
\* Carthage, build, .build or DerivedData.
C17_ExclusionCorrectness ==
  /\ \A c \in detected \cup todo : ~UnderExcludedDir(c.ios_path)
  /\ LoadOutcome(stateFile) = "loaded" =>
       \A c \in detect_changes(src, State) : ~UnderExcludedDir(c.ios_path)

\* a second run found changes while a file under Pods had been edited too
C17_Witness ==
  /\ Completed /\ ~dry_run
  /\ clock >= 3
  /\ detected # {}
  /\ PPods \in DOMAIN src /\ src[PPods] # SwiftV4
  /\ UnderExcludedDir(PPods)

(* ------------------------------------------------------------------ *)
(* C19                                                                  *)
(* ------------------------------------------------------------------ *)
\* C19: an added or modified non-test change whose source path has a fileMapping
\* entry is written at the mapped path, also when the entry comes from the initial
\* conversion and the path is detected as 'added'; one without an entry is written
\* at the Path Resolver's location.
C19_TargetPathSelection ==
  \A p \in Written :
    IF p \in DOMAIN PreState.fileMapping
    THEN log[p].target = PreState.fileMapping[p]
    ELSE log[p].target =
           determine_android_path(p, SyncRole[p][src[p]], PreState.packageName)

(* ------------------------------------------------------------------ *)
(* C21                                                                  *)
(* ------------------------------------------------------------------ *)
\* the source tree is the one the run enumerated: nobody edits it before the run ends
SinceDetection == lastEnd \in {"running", "completed", "nochanges", "aborted", "crashed"}

\* the entries of the detected list for one source path
ChangesOf(p) == {c \in detected : c.ios_path = p}

\* the kinds of change the detected list holds for one source path
KindsOf(p) == {c.change_type : c \in ChangesOf(p)}

\* C21: for every enumerated source path the detected list holds 'added' exactly
\* when the path is no key of the stored checksums, 'modified' exactly when it is
\* a key and the hash of the file differs, and nothing when the hash matches; it
\* holds 'deleted' for every key that is not enumerated; no path appears twice or
\* with two kinds.
C21_ThreeWayDetection ==
  SinceDetection =>
    \A p \in AllPaths :
      LET enumerated == p \in DOMAIN src /\ ~UnderExcludedDir(p)
          known == p \in DOMAIN PreState.checksums
      IN /\ Cardinality(ChangesOf(p)) <= 1
         /\ enumerated =>
              /\ ("added" \in KindsOf(p)) <=> ~known
              /\ ("modified" \in KindsOf(p)) <=>
                    (known /\ PreState.checksums[p] # Md5(src[p]))
              /\ (known /\ PreState.checksums[p] = Md5(src[p])) => ChangesOf(p) = {}
              /\ "deleted" \notin KindsOf(p)
         /\ ~enumerated =>
              /\ known => KindsOf(p) = {"deleted"}
              /\ ~known => ChangesOf(p) = {}

\* one list holds an added, a modified and a deleted path
C21_Witness ==
  /\ SinceDetection
  /\ {c.change_type : c \in detected} = {"added", "modified", "deleted"}

(* ------------------------------------------------------------------ *)
(* C22                                                                  *)
(* ------------------------------------------------------------------ *)
\* the outcome the rules give a change, on the trees the loop finds
ExpectedOutcome(c, source, tree, package_name) ==
  IF c.change_type = "deleted" THEN "deleted"
  ELSE LET role == classify_file(c.ios_path, source[c.ios_path])
           target == IF c.android_path # None THEN c.android_path
                     ELSE determine_android_path(c.ios_path, role, package_name)
           gen == GeneratedContent(c.ios_path, target, source[c.ios_path])
       IN IF role = "test" THEN "skipped"
          ELSE IF c.change_type = "modified" /\ target \in DOMAIN tree /\ tree[target] # gen
          THEN "conflict-written"
          ELSE "written"

\* the outcomes a step of the loop shows: what it returned, what it did to the
\* Android tree and to the mapping of the run
ObservedOutcomes(c, result, source, before, after, mapBefore, mapAfter) ==
  LET gen == GeneratedContent(c.ios_path, result, source[c.ios_path])
  IN {o \in {"skipped", "written", "conflict-written", "deleted"} :
        CASE o = "deleted" ->
               /\ c.change_type = "deleted"
               /\ result = None
               /\ after = IF c.android_path # None THEN Del(before, c.android_path)
                          ELSE before
          [] o = "skipped" ->
               /\ c.change_type # "deleted"
               /\ result = None
               /\ after = before
               /\ mapAfter = mapBefore
          [] o = "written" ->
               /\ c.change_type # "deleted"
               /\ result # None
               /\ after = Put(before, result, gen)
               /\ mapAfter = Put(mapBefore, c.ios_path, result)
          [] o = "conflict-written" ->
               /\ c.change_type # "deleted"
               /\ result # None
               /\ result \in DOMAIN before
               /\ after = Put(before, result, ConflictWrap(before[result], gen))
               /\ mapAfter = Put(mapBefore, c.ios_path, result)}

\* the step is one pass of the loop of a real run that applies a change
AppliesOne ==
  /\ pc = "loop" /\ ~dry_run
  /\ todo' # todo
  /\ \A c \in todo \ todo' : log'[c.ios_path].applied

\* C22: every change a non-dry run applies ends in exactly one of skipped, written,
\* conflict-written and deleted: a 'deleted' change in deleted; an added or
\* modified test file in skipped, with no file written and no mapping entry added;
\* a 'modified' change whose existing target differs from the generated content in
\* conflict-written; every other added or modified change in written, a 'modified'
\* change without a target file included.
C22_OutcomeStateMachine ==
  [][AppliesOne =>
       \A c \in todo \ todo' :
         ObservedOutcomes(c, log'[c.ios_path].result, src, tgt, tgt', new_mapping,
                          new_mapping')
           = {ExpectedOutcome(c, src, tgt, State.packageName)}]_vars

\* one run skipped a test file and wrote a 'modified' file whose target was gone
C22_Witness ==
  /\ Completed /\ ~dry_run
  /\ \E p \in Skipped : log[p].change.change_type = "modified"
  /\ \E p \in Written :
       /\ log[p].change.change_type = "modified"
       /\ log[p].change.android_path # None
       /\ ~log[p].existed
       /\ log[p].new = log[p].gen
       /\ ~HasConflictDelimiters(log[p].new)

(* ------------------------------------------------------------------ *)
(* C23                                                                  *)
(* ------------------------------------------------------------------ *)
\* the step writes the state file of a project that has one: a write of a sync
\* run, since every save stamps a new lastSyncDate
SyncWrites == stateFile # << >> /\ stateFile' # stateFile /\ LoadOutcome(stateFile') = "loaded"

\* the changes the loop of the run was given
ListOfRun == FilterChanges(detected, files)

\* C23: a sync run writes the state file at most once, and only after every change
\* of its list has been processed; a dry run, an aborted run and a run that
\* detects no changes never write it.
C23_SinglePersistencePoint ==
  /\ [][SyncWrites =>
          /\ pc = "loop" /\ pc' = "idle"
          /\ stateFile = pre.stateFile
          /\ ~dry_run
          /\ ListOfRun # {}
          /\ todo = {}
          /\ {c.ios_path : c \in ListOfRun} = DOMAIN log
          /\ lastEnd' = "completed"]_vars
  /\ [](((Completed /\ dry_run) \/ lastEnd \in {"aborted", "nochanges"})
           => stateFile = pre.stateFile)

\* a real run processed two changes and then wrote the state file
C23_Witness ==
  /\ Completed /\ ~dry_run
  /\ Cardinality(DOMAIN log) >= 2
  /\ stateFile # pre.stateFile

(* ------------------------------------------------------------------ *)
(* C24                                                                  *)
(* ------------------------------------------------------------------ *)
\* the signals of the rules, in the words of section 4.2 and with the tests of
\* lines 172-186
TestSignal(filepath) ==
  \/ Contains(Lower(filepath), <<"test">>)
  \/ EndsWith(Lower(Stem(filepath)), <<"test", "s">>)
  \/ EndsWith(Lower(Stem(filepath)), <<"test">>)

ViewModelSignal(filepath) ==
  \/ Contains(Lower(Stem(filepath)), <<"viewmodel">>)
  \/ Contains(Lower(Stem(filepath)), <<"vm">>)

DeclarativeViewSignal(content) ==
  Contains(content, <<"View">>) /\ Contains(content, <<"body:">>)

ControllerSignal(content) == Contains(content, <<"UIViewController">>)

ModelSignal(filepath, content) ==
  \/ Contains(Lower(filepath), <<"model">>)
  \/ (Contains(content, <<"struct">>) /\ Contains(content, <<"Codable">>))

ServiceSignal(filepath) ==
  \E w \in {"service", "api", "network"} : Contains(Lower(filepath), <<w>>)

ExtensionSignal(filepath) == Contains(Lower(filepath), <<"extension">>)

UtilitySignal(filepath) ==
  \E w \in {"util", "helper"} : Contains(Lower(filepath), <<w>>)

\* the rules in the order of the claim: whether each matches, and the role it gives
Precedence(filepath, content) ==
  <<[matches |-> TestSignal(filepath), role |-> "test"],
    [matches |-> ViewModelSignal(filepath), role |-> "viewmodel"],
    [matches |-> DeclarativeViewSignal(content), role |-> "view"],
    [matches |-> ControllerSignal(content), role |-> "view"],
    [matches |-> ModelSignal(filepath, content), role |-> "model"],
    [matches |-> ServiceSignal(filepath), role |-> "service"],
    [matches |-> ExtensionSignal(filepath), role |-> "extension"],
    [matches |-> UtilitySignal(filepath), role |-> "utility"],
    [matches |-> TRUE, role |-> "other"]>>

\* the role of the first rule that matches
FirstMatch(filepath, content) ==
  LET rules == Precedence(filepath, content)
      first == CHOOSE i \in DOMAIN rules :
                 rules[i].matches /\ \A j \in 1..(i - 1) : ~rules[j].matches
  IN rules[first].role

\* C24: classify_file returns the role of the first matching rule in the order
\* test, viewmodel, declarative view, view controller, model, service, extension,
\* utility, other; a file with the test signal is 'test' and a file with the
\* view-model name signal (and no test signal) is 'viewmodel' whatever its content.
C24_ClassifierPrecedence ==
  \A p \in DOMAIN log :
    /\ log[p].file_type = FirstMatch(p, log[p].content)
    /\ TestSignal(p) => log[p].file_type = "test"
    /\ (ViewModelSignal(p) /\ ~TestSignal(p)) => log[p].file_type = "viewmodel"

\* a file named as a view model whose content is a Codable SwiftUI view has been
\* classified
C24_Witness ==
  \E p \in DOMAIN log :
    /\ ViewModelSignal(p) /\ ~TestSignal(p)
    /\ DeclarativeViewSignal(log[p].content)
    /\ ModelSignal(p, log[p].content)
    /\ log[p].file_type = "viewmodel"

(* ------------------------------------------------------------------ *)
(* C25                                                                  *)
(* ------------------------------------------------------------------ *)
\* how many advisory comments the text holds
AdvisoryCount(kotlin) ==
  Cardinality({i \in DOMAIN kotlin : \E k \in DOMAIN Markers : kotlin[i] = Markers[k][2]})

\* the generated text carries the advisory comment its Swift text calls for: the
\* one of the first annotation class that occurs, once, and none without one
MarkedAsCalledFor(swift, kotlin) ==
  LET found == {k \in DOMAIN Markers : Contains(swift, <<Markers[k][1]>>)}
  IN IF found = {} THEN AdvisoryCount(kotlin) = 0
     ELSE /\ AdvisoryCount(kotlin) = 1
          /\ \E k \in found :
               /\ \A j \in found : k <= j
               /\ Contains(kotlin, <<Markers[k][2]>>)

\* the files the initial conversion has just generated are marked as called for
InitialMarked ==
  lastEnd = "converted" =>
    \A p \in DOMAIN State.fileMapping :
      MarkedAsCalledFor(src[p], tgt[State.fileMapping[p]])

\* C25: every file generated by the rewrite pipeline, by the initial conversion
\* and by the incremental sync alike, whose text holds @Published, @State or
\* @ObservedObject carries exactly one advisory comment, the one of the first
\* matching annotation class in that order; a file with none carries none.
C25_AdvisoryMarker ==
  /\ InitialMarked
  /\ \A p \in Written : MarkedAsCalledFor(src[p], log[p].gen)

(* ------------------------------------------------------------------ *)
(* C26                                                                  *)
(* ------------------------------------------------------------------ *)
\* the subdirectory of the package directory each placed role has
FixedSubdir ==
  [role \in {"model", "viewmodel", "view", "service", "extension", "utility"} |->
     CASE role = "model" -> <<"model">>
       [] role = "viewmodel" -> <<"viewmodel">>
       [] role = "view" -> <<"ui", "/", "screens">>
       [] role = "service" -> <<"data", "/", "repository">>
       [] role = "extension" -> <<"util">>
       [] role = "utility" -> <<"util">>]

\* the package id as a directory under app/src/main/java
PackageDir(package_name) ==
  JavaRoot \o [i \in DOMAIN package_name |->
                 IF package_name[i] = "." THEN "/" ELSE package_name[i]]

\* the target the claim gives a stem, a role and a package id
ResolvedAsClaimed(stem, role, package_name) ==
  IF role \in DOMAIN FixedSubdir
  THEN PackageDir(package_name) \o <<"/">> \o FixedSubdir[role] \o <<"/">> \o stem \o <<".kt">>
  ELSE PackageDir(package_name) \o <<"/">> \o stem \o <<".kt">>

\* C26: determine_android_path places model, viewmodel, view, service, extension
\* and utility files in their fixed subdirectory of the package directory and
\* every other role, 'other', 'test' and unknown ones alike, at the top of the
\* package directory; the result is a function of the stem, the role and the
\* package id.
C26_ResolverFailsClosed ==
  \A p \in DOMAIN log :
    log[p].target_rel = ResolvedAsClaimed(Stem(p), log[p].file_type, log[p].package_name)

\* a role that classify_file never returns has been resolved, to the top of the
\* package directory
C26_Witness ==
  \E p \in DOMAIN log :
    /\ log[p].file_type = "widget"
    /\ log[p].target_rel = PackageDir(log[p].package_name) \o <<"/">> \o Stem(p) \o <<".kt">>

(* ------------------------------------------------------------------ *)
(* C27                                                                  *)
(* ------------------------------------------------------------------ *)
\* the detected changes the file filter of the run left out
FilteredOut ==
  IF files = None THEN {}
  ELSE {c \in detected : \A i \in DOMAIN files : ~Contains(c.ios_path, files[i])}

\* C27: a detected change whose path matches no entry of the file filter is not
\* applied, its fileMapping and checksums entries stay as the run found them, and
\* with the source unchanged the next detection reports the same change again.
C27_FileFilterFrame ==
  SinceDetection =>
    \A c \in FilteredOut :
      /\ c.ios_path \notin DOMAIN log
      /\ (c.ios_path \in DOMAIN State.fileMapping) = (c.ios_path \in DOMAIN PreState.fileMapping)
      /\ Get(State.fileMapping, c.ios_path) = Get(PreState.fileMapping, c.ios_path)
      /\ (c.ios_path \in DOMAIN State.checksums) = (c.ios_path \in DOMAIN PreState.checksums)
      /\ Get(State.checksums, c.ios_path) = Get(PreState.checksums, c.ios_path)
      /\ c \in detect_changes(src, State)
      /\ FilteredOut = detected => (tgt = pre.tgt /\ stateFile = pre.stateFile)

\* a filtered real run wrote one file, saved the state and left a change out
C27_Witness ==
  /\ Completed /\ ~dry_run
  /\ Written # {}
  /\ stateFile # pre.stateFile
  /\ FilteredOut # {}

(* ------------------------------------------------------------------ *)
(* C28                                                                  *)
(* ------------------------------------------------------------------ *)
\* C28: at the end of a completed real run, every source path the run applied as
\* added or modified (test files aside) is mapped to a target file that exists and
\* holds what the run wrote for that path, the generated content plain or
\* conflict-wrapped: no later change of the run deleted or overwrote it.
C28_MappedTargetsCurrent ==
  (Completed /\ ~dry_run) =>
    \A p \in Written :
      /\ p \in DOMAIN State.fileMapping
      /\ State.fileMapping[p] = log[p].result
      /\ log[p].new \in {log[p].gen, ConflictWrap(log[p].old, log[p].gen)}
      /\ State.fileMapping[p] \in DOMAIN tgt
      /\ tgt[State.fileMapping[p]] = log[p].new

(* ------------------------------------------------------------------ *)
(* C29                                                                  *)
(* ------------------------------------------------------------------ *)
\* C29: in every state file the initial conversion and the sync runs after it
\* write, no two source paths are mapped to the same target path.
C29_MappingInjective ==
  LoadOutcome(stateFile) = "loaded" =>
    \A p, q \in DOMAIN State.fileMapping :
      p # q => State.fileMapping[p] # State.fileMapping[q]

(* ------------------------------------------------------------------ *)
(* C30                                                                  *)
(* ------------------------------------------------------------------ *)
\* a run was ended by the answer q after it had written at least one file
StoppedPartWay == pc = "idle" /\ lastEnd = "aborted" /\ Written # {}

\* what a run starts from now: the trees as the stopped run left them, and the
\* state file, which the stopped run did not write
AfterPartial ==
  [result |-> None, tgt |-> tgt, dirs |-> tgtDirs,
   new_mapping |-> State.fileMapping, new_checksums |-> State.checksums]

\* the Android tree and the dicts a full real run leaves: the loop over the whole
\* list, added and modified changes in the order o and the deleted ones after
\* them in the order d
FullRun(o, d, start) == ApplyInOrder(d, 1, ApplyInOrder(o, 1, start))

\* C30: when a run was stopped part-way by the answer q and nothing is touched
\* afterwards, a full non-interactive run leaves the Android tree, fileMapping and
\* checksums that a single full run from the state before the stopped run would
\* have left; no file is wrapped in conflict delimiters twice.
C30_SafeAgainstPartialState ==
  StoppedPartWay =>
    LET dels == {c \in detected : c.change_type = "deleted"}
    IN \A o \in Orders(detected \ dels), d \in Orders(dels) :
         LET resumed == FullRun(o, d, AfterPartial)
             single == FullRun(o, d, RunStart)
         IN /\ resumed.tgt = single.tgt
            /\ resumed.new_mapping = single.new_mapping
            /\ resumed.new_checksums = single.new_checksums

(* ------------------------------------------------------------------ *)
(* C31                                                                  *)
(* ------------------------------------------------------------------ *)
\* places a project may live at: the one of the model, and one below a directory
\* named build
SourceRoots == {IosRoot, <<"/", "build", "/", "ios">>}

\* C31: a source file is left out of the enumeration exactly when one of its
\* directory components below the source root is Pods, Carthage, build, .build or
\* DerivedData: an untracked file is reported as added unless it lies under such
\* a directory, and the place of the source root excludes nothing.
C31_ExclusionBelowRoot ==
  SinceDetection =>
    \A p \in DOMAIN src :
      /\ p \notin DOMAIN PreState.checksums =>
           ((ChangesOf(p) = {}) <=> UnderExcludedDir(p))
      /\ \A root \in SourceRoots : IsExcludedAt(root, p) <=> UnderExcludedDir(p)

(* ------------------------------------------------------------------ *)
(* C32                                                                  *)
(* ------------------------------------------------------------------ *)
\* a real run without prompts and without a file filter has completed
FullRunCompleted == Completed /\ ~dry_run /\ ~interactive /\ files = None

\* C32: after a completed real run without prompts and without a file filter, the
\* keys of the persisted checksums are the source files outside the excluded
\* directories and every value is the hash of the file's content, for the files
\* skipped as tests too.
C32_ChecksumsConverge ==
  FullRunCompleted =>
    /\ DOMAIN State.checksums = {p \in DOMAIN src : ~UnderExcludedDir(p)}
    /\ \A p \in DOMAIN State.checksums : State.checksums[p] = Md5(src[p])

\* such a run skipped an edited test file and dropped a deleted file
C32_Witness ==
  /\ FullRunCompleted
  /\ \E p \in Skipped :
       /\ log[p].change.change_type = "modified"
       /\ State.checksums[p] = Md5(src[p])
       /\ State.checksums[p] # PreState.checksums[p]
  /\ \E p \in Applied : log[p].change.change_type = "deleted"

(* ------------------------------------------------------------------ *)
(* C33                                                                  *)
(* ------------------------------------------------------------------ *)
\* the first real sync after the initial conversion has completed, and nobody has
\* edited a source file or a generated file
FirstSyncUnedited ==
  Completed /\ ~dry_run /\ runs = 1 /\ srcEdits = 0 /\ handEdits = 0

\* C33: for the same source file, package and target path the initial conversion
\* and the sync generate the same text, so the first sync after an initial
\* conversion without source edits leaves the content of every target file as the
\* conversion wrote it.
C33_SameGeneratedContent ==
  FirstSyncUnedited =>
    /\ \A p \in Written :
         log[p].result = InitialTarget(p, src, PreState.packageName) =>
           log[p].gen = InitialContent(p, src, PreState.packageName)
    /\ \A t \in DOMAIN pre.tgt : t \in DOMAIN tgt /\ tgt[t] = pre.tgt[t]

(* ------------------------------------------------------------------ *)
(* C34                                                                  *)
(* ------------------------------------------------------------------ *)
\* C34: the analyzer that seeds the initial mapping and classify_file of the sync
\* give every source file the same role, so the file the initial conversion has
\* placed lies where the sync places a file of that path and content.
C34_ClassifiersAgree ==
  lastEnd = "converted" =>
    /\ \A p \in DOMAIN src :
         ~IsExcluded(p) => analyze_swift_file(p, src[p]) = classify_file(p, src[p])
    /\ \A p \in DOMAIN State.fileMapping :
         State.fileMapping[p]
           = determine_android_path(p, classify_file(p, src[p]), State.packageName)

(* ------------------------------------------------------------------ *)
(* C35                                                                  *)
(* ------------------------------------------------------------------ *)
\* the list a run from the state this run started from is given for a --since value
ListWith(since) == ChangesOfRun(src, PreState, since, files)

\* a full pass of the loop over that list, from what this run started from, leaves
\* what this run left
SameOutcomeWith(since) ==
  LET dels == {c \in ListWith(since) : c.change_type = "deleted"}
  IN \E o \in Orders(ListWith(since) \ dels), d \in Orders(dels) :
       IsOutcome(FullRun(o, d, RunStart))

====
